---- MODULE Spec2Model ----
(***************************************************************************)
(* Model of gh-review's diff core: pkg/diffhunk (hunk parsing),            *)
(* pkg/diffposition (line mapping) and the locate/verify/synthesize part   *)
(* of pkg/applier (Applier.createPatch).                                   *)
(*                                                                         *)
(* A Go string is a sequence of one-character strings; a []string is a    *)
(* sequence of such sequences.                                             *)
(***************************************************************************)
EXTENDS Integers, Sequences, FiniteSets, TLC

(***************************************************************************)
(* Bounds of the model.                                                    *)
(***************************************************************************)
MaxFileLines == 3
MaxBodyLines == 3
MaxNewStart == 3
MaxPatchLines == 3
MaxStart == 2

(***************************************************************************)
(* Strings.                                                                *)
(***************************************************************************)
NL == "\n"

DigitChars == <<"0", "1", "2", "3", "4", "5", "6", "7", "8", "9">>

Digits == {DigitChars[i] : i \in 1..10}

\* regexp \s
Whitespace == {" ", "\t", "\n", "\r", "\f"}

Max(a, b) == IF a >= b THEN a ELSE b

Min(a, b) == IF a <= b THEN a ELSE b

\* s[from..to] (1-based, inclusive), empty when to < from
Slice(s, from, to) == SubSeq(s, from, to)

\* first index j >= i of s whose character is not in S (Len(s)+1 if none)
RECURSIVE SkipSet(_, _, _)
SkipSet(s, i, S) ==
  IF i > Len(s) \/ s[i] \notin S THEN i ELSE SkipSet(s, i + 1, S)

\* first index j >= i of s whose character is c (Len(s)+1 if none)
RECURSIVE SkipTo(_, _, _)
SkipTo(s, i, c) ==
  IF i > Len(s) \/ s[i] = c THEN i ELSE SkipTo(s, i + 1, c)

\* strings.Split(s, "\n")
RECURSIVE SplitFrom(_, _)
SplitFrom(s, from) ==
  LET j == SkipTo(s, from, NL)
  IN IF j > Len(s)
       THEN <<Slice(s, from, Len(s))>>
       ELSE <<Slice(s, from, j - 1)>> \o SplitFrom(s, j + 1)

SplitLines(s) == SplitFrom(s, 1)

\* strings.Join(lines, "\n")
RECURSIVE JoinLines(_)
JoinLines(lines) ==
  IF lines = <<>> THEN <<>>
  ELSE IF Len(lines) = 1 THEN lines[1]
  ELSE lines[1] \o <<NL>> \o JoinLines(Tail(lines))

\* strings.TrimSuffix(s, "\n")
TrimSuffixNL(s) ==
  IF Len(s) > 0 /\ s[Len(s)] = NL THEN SubSeq(s, 1, Len(s) - 1) ELSE s

DigitVal(c) == (CHOOSE i \in 1..10 : DigitChars[i] = c) - 1

\* strconv.Atoi on a run of decimal digits
RECURSIVE Atoi(_)
Atoi(ds) ==
  IF ds = <<>> THEN 0
  ELSE Atoi(SubSeq(ds, 1, Len(ds) - 1)) * 10 + DigitVal(ds[Len(ds)])

\* fmt.Sprintf("%d", n) for n >= 0
RECURSIVE Itoa(_)
Itoa(n) ==
  IF n < 10 THEN <<DigitChars[n + 1]>>
  ELSE Itoa(n \div 10) \o <<DigitChars[(n % 10) + 1]>>

(***************************************************************************)
(* pkg/diffhunk                                                            *)
(***************************************************************************)
NilHunk ==
  [OldStart |-> 0, OldLines |-> 0, NewStart |-> 0, NewLines |-> 0, Lines |-> <<>>]

NoHeader == [ok |-> FALSE, oldStart |-> 0, oldLines |-> 0, newStart |-> 0, newLines |-> 0]

NoSide == [next |-> 0, start |-> 0, count |-> 0]

\* one side of the header, (\d+)(?:,(\d+))?, matched at index i: the start is
\* line[i..j), the count line[j+1..k) or 1 when omitted (k = j), next is k
HeaderSideTo(line, i, j, k) ==
  [next  |-> k,
   start |-> Atoi(Slice(line, i, j - 1)),
   count |-> IF k > j THEN Atoi(Slice(line, j + 1, k - 1)) ELSE 1]

\* j is the index after the digits at i; no digit there is no match
HeaderSideFrom(line, i, j) ==
  IF j = i THEN NoSide
  ELSE IF j + 1 <= Len(line) /\ line[j] = "," /\ line[j + 1] \in Digits
    THEN HeaderSideTo(line, i, j, SkipSet(line, j + 1, Digits))
    ELSE HeaderSideTo(line, i, j, j)

HeaderSide(line, i) == HeaderSideFrom(line, i, SkipSet(line, i, Digits))

\* headerRegex without its closing @@
MatchClose_NoClosing(line, old, new, c) ==
  IF c > new.next
    THEN [ok |-> TRUE, oldStart |-> old.start, oldLines |-> old.count,
          newStart |-> new.start, newLines |-> new.count]
    ELSE NoHeader

\* headerRegex's closing \s+@@, c the index after the white space
MatchClose(line, old, new, c) ==
  IF c > new.next /\ c + 1 <= Len(line) /\ line[c] = "@" /\ line[c + 1] = "@"
    THEN [ok |-> TRUE, oldStart |-> old.start, oldLines |-> old.count,
          newStart |-> new.start, newLines |-> new.count]
    ELSE NoHeader

MatchAfterNew(line, old, new) ==
  IF new.next = 0 THEN NoHeader
  ELSE MatchClose(line, old, new, SkipSet(line, new.next, Whitespace))

\* headerRegex's \s+\+(\d+)(?:,(\d+))?, b the index after the white space
MatchNewSide(line, old, b) ==
  IF b > old.next /\ b <= Len(line) /\ line[b] = "+"
    THEN MatchAfterNew(line, old, HeaderSide(line, b + 1))
    ELSE NoHeader

MatchAfterOld(line, old) ==
  IF old.next = 0 THEN NoHeader
  ELSE MatchNewSide(line, old, SkipSet(line, old.next, Whitespace))

\* headerRegex's \s+-(\d+)(?:,(\d+))?, a the index after the white space
MatchOldSide(line, a) ==
  IF a > 3 /\ a <= Len(line) /\ line[a] = "-"
    THEN MatchAfterOld(line, HeaderSide(line, a + 1))
    ELSE NoHeader

\* headerRegex ^@@\s+-(\d+)(?:,(\d+))?\s+\+(\d+)(?:,(\d+))?\s+@@ on lines[0]
MatchHeader(line) ==
  IF Len(line) >= 2 /\ line[1] = "@" /\ line[2] = "@"
    THEN MatchOldSide(line, SkipSet(line, 3, Whitespace))
    ELSE NoHeader

\* the body loop of ParseDiffHunk, lines[i..] with the running cursors
RECURSIVE ParseBody(_, _, _, _, _)
ParseBody(lines, i, oldLine, newLine, position) ==
  IF i > Len(lines) THEN <<>>
  ELSE
    LET line == lines[i] IN
    IF Len(line) = 0 THEN ParseBody(lines, i + 1, oldLine, newLine, position)
    ELSE IF line[1] = " " THEN
      <<[Type |-> "Context", OldLineNumber |-> oldLine, NewLineNumber |-> newLine,
         Text |-> Tail(line), PositionInHunk |-> position]>>
        \o ParseBody(lines, i + 1, oldLine + 1, newLine + 1, position + 1)
    ELSE IF line[1] = "+" THEN
      <<[Type |-> "Add", OldLineNumber |-> -1, NewLineNumber |-> newLine,
         Text |-> Tail(line), PositionInHunk |-> position]>>
        \o ParseBody(lines, i + 1, oldLine, newLine + 1, position + 1)
    ELSE IF line[1] = "-" THEN
      <<[Type |-> "Delete", OldLineNumber |-> oldLine, NewLineNumber |-> -1,
         Text |-> Tail(line), PositionInHunk |-> position]>>
        \o ParseBody(lines, i + 1, oldLine + 1, newLine, position + 1)
    ELSE IF line[1] = "\\" THEN
      <<[Type |-> "Control", OldLineNumber |-> -1, NewLineNumber |-> -1,
         Text |-> line, PositionInHunk |-> position]>>
        \o ParseBody(lines, i + 1, oldLine, newLine, position + 1)
    ELSE
      <<[Type |-> "Context", OldLineNumber |-> 0, NewLineNumber |-> 0,
         Text |-> line, PositionInHunk |-> position]>>
        \o ParseBody(lines, i + 1, oldLine, newLine, position + 1)

\* ParseDiffHunk storing the header's two counts in each other's field
ParseWithHeader_CountsSwapped(lines, h) ==
  IF ~h.ok
    THEN [ok |-> FALSE, hunk |-> NilHunk]
    ELSE [ok |-> TRUE,
          hunk |-> [OldStart |-> h.oldStart, OldLines |-> h.newLines,
                    NewStart |-> h.newStart, NewLines |-> h.oldLines,
                    Lines |-> ParseBody(lines, 2, h.oldStart, h.newStart, 0)]]

\* ParseDiffHunk starting each cursor at the other side's start
ParseWithHeader_CursorsSwapped(lines, h) ==
  IF ~h.ok
    THEN [ok |-> FALSE, hunk |-> NilHunk]
    ELSE [ok |-> TRUE,
          hunk |-> [OldStart |-> h.oldStart, OldLines |-> h.oldLines,
                    NewStart |-> h.newStart, NewLines |-> h.newLines,
                    Lines |-> ParseBody(lines, 2, h.newStart, h.oldStart, 0)]]

\* ParseDiffHunk with position starting at 1
ParseWithHeader_PositionFromOne(lines, h) ==
  IF ~h.ok
    THEN [ok |-> FALSE, hunk |-> NilHunk]
    ELSE [ok |-> TRUE,
          hunk |-> [OldStart |-> h.oldStart, OldLines |-> h.oldLines,
                    NewStart |-> h.newStart, NewLines |-> h.newLines,
                    Lines |-> ParseBody(lines, 2, h.oldStart, h.newStart, 1)]]

\* ParseDiffHunk once the header line has been matched
ParseWithHeader(lines, h) ==
  IF ~h.ok
    THEN [ok |-> FALSE, hunk |-> NilHunk]
    ELSE [ok |-> TRUE,
          hunk |-> [OldStart |-> h.oldStart, OldLines |-> h.oldLines,
                    NewStart |-> h.newStart, NewLines |-> h.newLines,
                    Lines |-> ParseBody(lines, 2, h.oldStart, h.newStart, 0)]]

\* ParseDiffHunk once the text has been split
ParseHunkLines(lines) == ParseWithHeader(lines, MatchHeader(lines[1]))

ParseDiffHunk(hunk) == ParseHunkLines(SplitLines(hunk))

GetZeroBased(line) == IF line = 0 THEN 0 ELSE line - 1

\* the lines (without marker) of the split text from index i on that start with mark
RECURSIVE MarkedLines(_, _, _)
MarkedLines(lines, i, mark) ==
  IF i > Len(lines) THEN <<>>
  ELSE IF Len(lines[i]) > 0 /\ lines[i][1] = mark
    THEN <<Tail(lines[i])>> \o MarkedLines(lines, i + 1, mark)
    ELSE MarkedLines(lines, i + 1, mark)

\* GetAddedLines collecting the lines marked '-'
GetAddedLines_MinusMarker(hunk) == MarkedLines(SplitLines(hunk), 2, "-")

GetAddedLines(hunk) == MarkedLines(SplitLines(hunk), 2, "+")

\* GetRemovedLines collecting the lines marked '+'
GetRemovedLines_PlusMarker(hunk) == MarkedLines(SplitLines(hunk), 2, "+")

GetRemovedLines(hunk) == MarkedLines(SplitLines(hunk), 2, "-")

\* a match of (?m)^@@[^@]+@@ starting at p, q being the first "@" after
\* p + 1: its end (exclusive), 0 if none
HunkHeaderEndAt(s, p, q) ==
  IF /\ (p = 1 \/ s[p - 1] = NL)
     /\ p + 1 <= Len(s) /\ s[p] = "@" /\ s[p + 1] = "@"
     /\ q > p + 2
     /\ q + 1 <= Len(s) /\ s[q] = "@" /\ s[q + 1] = "@"
    THEN q + 2
    ELSE 0

HunkHeaderEnd(s, p) == HunkHeaderEndAt(s, p, SkipTo(s, p + 2, "@"))

\* hunkRegex.FindAllStringIndex: the starts of the matches from index from on;
\* end is where a match at from ends (0: no match there)
RECURSIVE HunkStarts(_, _)
RECURSIVE HunkStartsVia(_, _, _)
HunkStartsVia(s, from, end) ==
  IF end # 0 THEN <<from>> \o HunkStarts(s, end) ELSE HunkStarts(s, from + 1)

HunkStarts(s, from) ==
  IF from > Len(s) THEN <<>>
  ELSE HunkStartsVia(s, from, HunkHeaderEnd(s, from))

\* the hunks parsed before a failing one are returned with the error
PrependHunk_KeptOnError(hunk, rest) ==
  [rest EXCEPT !.hunks = <<hunk>> \o @]

\* the hunk parsed goes in front of what the rest of the loop returns
PrependHunk(hunk, rest) ==
  [rest EXCEPT !.hunks = IF rest.ok THEN <<hunk>> \o @ ELSE @]

\* the loop of ParsePatch over the header matches starts[i..]; r is what
\* ParseDiffHunk made of the text of match i
RECURSIVE ParseHunksFrom(_, _, _)
RECURSIVE ParseHunkAt(_, _, _, _)
ParseHunkAt(patch, starts, i, r) ==
  IF ~r.ok
    THEN [ok |-> FALSE, err |-> "failed to parse hunk", index |-> i - 1,
          hunks |-> <<>>]
    ELSE PrependHunk(r.hunk, ParseHunksFrom(patch, starts, i + 1))

ParseHunksFrom(patch, starts, i) ==
  IF i > Len(starts)
    THEN [ok |-> TRUE, err |-> "", index |-> -1, hunks |-> <<>>]
    ELSE ParseHunkAt(patch, starts, i,
                     ParseDiffHunk(SubSeq(patch, starts[i],
                                          IF i < Len(starts) THEN starts[i + 1] - 1
                                                             ELSE Len(patch))))

\* ParsePatch once the header matches have been found
ParseMatches(patch, starts) ==
  IF Len(starts) = 0
    THEN [ok |-> FALSE, err |-> "no hunks found in patch", index |-> -1,
          hunks |-> <<>>]
    ELSE ParseHunksFrom(patch, starts, 1)

ParsePatch(patch) == ParseMatches(patch, HunkStarts(patch, 1))

\* GetDiffLineByPosition's nil
NoLine ==
  [found |-> FALSE,
   line |-> [Type |-> "", OldLineNumber |-> 0, NewLineNumber |-> 0,
             Text |-> <<>>, PositionInHunk |-> 0]]

\* currentPos++ for every line that is no Control line
NextPos(line, currentPos) ==
  IF line.Type # "Control" THEN currentPos + 1 ELSE currentPos

\* the two loops of GetDiffLineByPosition, at line k of hunk h
RECURSIVE LineByPosition(_, _, _, _, _)
LineByPosition(hunks, h, k, currentPos, diffLineNumber) ==
  IF h > Len(hunks) THEN NoLine
  ELSE IF k > Len(hunks[h].Lines)
    THEN LineByPosition(hunks, h + 1, 1, currentPos, diffLineNumber)
  ELSE IF currentPos = diffLineNumber
    THEN [found |-> TRUE, line |-> hunks[h].Lines[k]]
    ELSE LineByPosition(hunks, h, k + 1, NextPos(hunks[h].Lines[k], currentPos),
                        diffLineNumber)

GetDiffLineByPosition(hunks, diffLineNumber) ==
  LineByPosition(hunks, 1, 1, 1, diffLineNumber)

\* the loop "for currentOldLine < hunk.OldStart" run to oldStart inclusive
CopyBefore_OneMore(originalLines, currentOldLine, oldStart) ==
  SubSeq(originalLines, currentOldLine, Min(oldStart, Len(originalLines)))

\* the loop "for currentOldLine < hunk.OldStart": the original lines from
\* currentOldLine up to the line before oldStart that exist
CopyBefore(originalLines, currentOldLine, oldStart) ==
  SubSeq(originalLines, currentOldLine, Min(oldStart - 1, Len(originalLines)))

\* the switch over the lines of a hunk with the Delete lines appended as well
RECURSIVE HunkOutput_DeleteKept(_, _)
HunkOutput_DeleteKept(lines, k) ==
  IF k > Len(lines) THEN <<>>
  ELSE IF lines[k].Type \in {"Context", "Add", "Delete"}
    THEN <<lines[k].Text>> \o HunkOutput_DeleteKept(lines, k + 1)
    ELSE HunkOutput_DeleteKept(lines, k + 1)

\* the switch over the lines of a hunk: what is appended to result
RECURSIVE HunkOutput(_, _)
HunkOutput(lines, k) ==
  IF k > Len(lines) THEN <<>>
  ELSE IF lines[k].Type \in {"Context", "Add"}
    THEN <<lines[k].Text>> \o HunkOutput(lines, k + 1)
    ELSE HunkOutput(lines, k + 1)

\* the switch over the lines of a hunk with currentOldLine++ in the Delete
\* case only
OldAdvance_DeletesOnly(lines) ==
  Cardinality({k \in 1..Len(lines) : lines[k].Type = "Delete"})

\* the switch over the lines of a hunk: how often currentOldLine++ runs
OldAdvance(lines) ==
  Cardinality({k \in 1..Len(lines) : lines[k].Type \in {"Context", "Delete"}})

\* the loop of GetModifiedContentFromDiffHunk over the hunks from index h on,
\* and the remaining lines after the last hunk
RECURSIVE ModifyFrom(_, _, _, _)
ModifyFrom(hunks, h, originalLines, currentOldLine) ==
  IF h > Len(hunks)
    THEN SubSeq(originalLines, currentOldLine, Len(originalLines))
    ELSE CopyBefore(originalLines, currentOldLine, hunks[h].OldStart)
           \o HunkOutput(hunks[h].Lines, 1)
           \o ModifyFrom(hunks, h + 1, originalLines,
                         Max(currentOldLine, hunks[h].OldStart)
                           + OldAdvance(hunks[h].Lines))

\* GetModifiedContentFromDiffHunk once ParsePatch has returned p
ModifiedParsed(originalContent, p) ==
  IF ~p.ok THEN [ok |-> FALSE, content |-> <<>>]
  ELSE [ok |-> TRUE,
        content |-> JoinLines(ModifyFrom(p.hunks, 1, SplitLines(originalContent), 1))]

GetModifiedContentFromDiffHunk(originalContent, patch) ==
  ModifiedParsed(originalContent, ParsePatch(patch))

(***************************************************************************)
(* pkg/diffposition                                                        *)
(***************************************************************************)
NotInHunk == [found |-> FALSE, val |-> 0]

\* the inner loop of MapOldPositionToNew with an Add case that leaves
\* currentNewLine alone
RECURSIVE WalkOld_AddNotCounted(_, _, _, _, _)
WalkOld_AddNotCounted(lines, k, currentOldLine, currentNewLine, oldLine) ==
  IF k > Len(lines) THEN NotInHunk
  ELSE IF lines[k].Type = "Context" THEN
    IF currentOldLine = oldLine THEN [found |-> TRUE, val |-> currentNewLine]
    ELSE WalkOld_AddNotCounted(lines, k + 1, currentOldLine + 1, currentNewLine + 1,
                               oldLine)
  ELSE IF lines[k].Type = "Delete" THEN
    IF currentOldLine = oldLine THEN [found |-> TRUE, val |-> -1]
    ELSE WalkOld_AddNotCounted(lines, k + 1, currentOldLine + 1, currentNewLine,
                               oldLine)
  ELSE WalkOld_AddNotCounted(lines, k + 1, currentOldLine, currentNewLine, oldLine)

\* the inner loop of MapOldPositionToNew over hunk.Lines[k..]
RECURSIVE WalkOld(_, _, _, _, _)
WalkOld(lines, k, currentOldLine, currentNewLine, oldLine) ==
  IF k > Len(lines) THEN NotInHunk
  ELSE IF lines[k].Type = "Context" THEN
    IF currentOldLine = oldLine THEN [found |-> TRUE, val |-> currentNewLine]
    ELSE WalkOld(lines, k + 1, currentOldLine + 1, currentNewLine + 1, oldLine)
  ELSE IF lines[k].Type = "Delete" THEN
    IF currentOldLine = oldLine THEN [found |-> TRUE, val |-> -1]
    ELSE WalkOld(lines, k + 1, currentOldLine + 1, currentNewLine, oldLine)
  ELSE IF lines[k].Type = "Add" THEN
    WalkOld(lines, k + 1, currentOldLine, currentNewLine + 1, oldLine)
  ELSE WalkOld(lines, k + 1, currentOldLine, currentNewLine, oldLine)

\* the loop of MapOldPositionToNew with offset += OldLines - NewLines
RECURSIVE MapOldFrom_SignFlipped(_, _, _, _)
MapOldFrom_SignFlipped(hunks, i, oldLine, offset) ==
  IF i > Len(hunks) THEN oldLine + offset
  ELSE
    LET hunk == hunks[i] IN
    IF oldLine < hunk.OldStart THEN oldLine + offset
    ELSE IF oldLine >= hunk.OldStart + hunk.OldLines
      THEN MapOldFrom_SignFlipped(hunks, i + 1, oldLine,
                                  offset + (hunk.OldLines - hunk.NewLines))
    ELSE
      LET w == WalkOld(hunk.Lines, 1, hunk.OldStart, hunk.NewStart, oldLine)
      IN IF w.found THEN w.val
         ELSE MapOldFrom_SignFlipped(hunks, i + 1, oldLine, offset)

\* the loop of MapOldPositionToNew with offset = (not +=) NewLines - OldLines
RECURSIVE MapOldFrom_OffsetReset(_, _, _, _)
MapOldFrom_OffsetReset(hunks, i, oldLine, offset) ==
  IF i > Len(hunks) THEN oldLine + offset
  ELSE
    LET hunk == hunks[i] IN
    IF oldLine < hunk.OldStart THEN oldLine + offset
    ELSE IF oldLine >= hunk.OldStart + hunk.OldLines
      THEN MapOldFrom_OffsetReset(hunks, i + 1, oldLine,
                                  hunk.NewLines - hunk.OldLines)
    ELSE
      LET w == WalkOld(hunk.Lines, 1, hunk.OldStart, hunk.NewStart, oldLine)
      IN IF w.found THEN w.val
         ELSE MapOldFrom_OffsetReset(hunks, i + 1, oldLine, offset)

\* the loop of MapOldPositionToNew over hunks[i..] with the running offset
RECURSIVE MapOldFrom(_, _, _, _)
MapOldFrom(hunks, i, oldLine, offset) ==
  IF i > Len(hunks) THEN oldLine + offset
  ELSE
    LET hunk == hunks[i] IN
    IF oldLine < hunk.OldStart THEN oldLine + offset
    ELSE IF oldLine >= hunk.OldStart + hunk.OldLines
      THEN MapOldFrom(hunks, i + 1, oldLine, offset + (hunk.NewLines - hunk.OldLines))
    ELSE
      LET w == WalkOld(hunk.Lines, 1, hunk.OldStart, hunk.NewStart, oldLine)
      IN IF w.found THEN w.val ELSE MapOldFrom(hunks, i + 1, oldLine, offset)

\* MapOldPositionToNew once ParsePatch has returned p
MapOldParsed(p, oldLine) ==
  IF ~p.ok THEN [val |-> -1, ok |-> FALSE]
  ELSE IF Len(p.hunks) > 0 /\ oldLine < p.hunks[1].OldStart
    THEN [val |-> oldLine, ok |-> TRUE]
    ELSE [val |-> MapOldFrom(p.hunks, 1, oldLine, 0), ok |-> TRUE]

MapOldPositionToNew(patch, oldLine) == MapOldParsed(ParsePatch(patch), oldLine)

\* the inner loop of MapNewPositionToOld with a Delete case that leaves
\* currentOldLine alone
RECURSIVE WalkNew_DeleteNotCounted(_, _, _, _, _)
WalkNew_DeleteNotCounted(lines, k, currentOldLine, currentNewLine, newLine) ==
  IF k > Len(lines) THEN NotInHunk
  ELSE IF lines[k].Type = "Context" THEN
    IF currentNewLine = newLine THEN [found |-> TRUE, val |-> currentOldLine]
    ELSE WalkNew_DeleteNotCounted(lines, k + 1, currentOldLine + 1,
                                  currentNewLine + 1, newLine)
  ELSE IF lines[k].Type = "Add" THEN
    IF currentNewLine = newLine THEN [found |-> TRUE, val |-> -1]
    ELSE WalkNew_DeleteNotCounted(lines, k + 1, currentOldLine, currentNewLine + 1,
                                  newLine)
  ELSE WalkNew_DeleteNotCounted(lines, k + 1, currentOldLine, currentNewLine, newLine)

\* the inner loop of MapNewPositionToOld over hunk.Lines[k..]
RECURSIVE WalkNew(_, _, _, _, _)
WalkNew(lines, k, currentOldLine, currentNewLine, newLine) ==
  IF k > Len(lines) THEN NotInHunk
  ELSE IF lines[k].Type = "Context" THEN
    IF currentNewLine = newLine THEN [found |-> TRUE, val |-> currentOldLine]
    ELSE WalkNew(lines, k + 1, currentOldLine + 1, currentNewLine + 1, newLine)
  ELSE IF lines[k].Type = "Delete" THEN
    WalkNew(lines, k + 1, currentOldLine + 1, currentNewLine, newLine)
  ELSE IF lines[k].Type = "Add" THEN
    IF currentNewLine = newLine THEN [found |-> TRUE, val |-> -1]
    ELSE WalkNew(lines, k + 1, currentOldLine, currentNewLine + 1, newLine)
  ELSE WalkNew(lines, k + 1, currentOldLine, currentNewLine, newLine)

\* the loop of MapNewPositionToOld over hunks[i..] with the running offset
\* the hunk loop of MapNewPositionToOld with the offset added to the line
RECURSIVE MapNewFrom_OffsetAdded(_, _, _, _)
MapNewFrom_OffsetAdded(hunks, i, newLine, offset) ==
  IF i > Len(hunks) THEN newLine + offset
  ELSE
    LET hunk == hunks[i] IN
    IF newLine < hunk.NewStart THEN newLine + offset
    ELSE IF newLine >= hunk.NewStart + hunk.NewLines
      THEN MapNewFrom_OffsetAdded(hunks, i + 1, newLine,
                                  offset + (hunk.NewLines - hunk.OldLines))
    ELSE
      LET w == WalkNew(hunk.Lines, 1, hunk.OldStart, hunk.NewStart, newLine)
      IN IF w.found THEN w.val
         ELSE MapNewFrom_OffsetAdded(hunks, i + 1, newLine, offset)

RECURSIVE MapNewFrom(_, _, _, _)
MapNewFrom(hunks, i, newLine, offset) ==
  IF i > Len(hunks) THEN newLine - offset
  ELSE
    LET hunk == hunks[i] IN
    IF newLine < hunk.NewStart THEN newLine - offset
    ELSE IF newLine >= hunk.NewStart + hunk.NewLines
      THEN MapNewFrom(hunks, i + 1, newLine, offset + (hunk.NewLines - hunk.OldLines))
    ELSE
      LET w == WalkNew(hunk.Lines, 1, hunk.OldStart, hunk.NewStart, newLine)
      IN IF w.found THEN w.val ELSE MapNewFrom(hunks, i + 1, newLine, offset)

\* MapNewPositionToOld once ParsePatch has returned p
MapNewParsed(p, newLine) ==
  IF ~p.ok THEN [val |-> -1, ok |-> FALSE]
  ELSE IF Len(p.hunks) > 0 /\ newLine < p.hunks[1].NewStart
    THEN [val |-> newLine, ok |-> TRUE]
    ELSE [val |-> MapNewFrom(p.hunks, 1, newLine, 0), ok |-> TRUE]

MapNewPositionToOld(patch, newLine) == MapNewParsed(ParsePatch(patch), newLine)

\* the RIGHT branch with the test for an added line left out
OutdatedRight_AddedIsOutdated(r, originalLine) ==
  r.ok /\ r.val # originalLine

\* the RIGHT branch of CalculateCommentPosition, r being what
\* MapNewPositionToOld returned
OutdatedRight(r, originalLine) ==
  r.ok /\ r.val # -1 /\ r.val # originalLine

\* the LEFT branch, r being what MapOldPositionToNew returned
OutdatedLeft(r) == r.ok /\ r.val = -1

\* pos.IsOutdated after the two branches, p being what ParsePatch returns
\* to the mapping function of the branch taken
IsOutdated(line, originalLine, diffHunk, diffSide, p) ==
  IF diffSide = "RIGHT" /\ diffHunk # <<>>
    THEN OutdatedRight(MapNewParsed(p, line), originalLine)
  ELSE IF diffSide = "LEFT" /\ diffHunk # <<>>
    THEN OutdatedLeft(MapOldParsed(p, originalLine))
    ELSE FALSE

\* CalculateCommentPosition with p for ParsePatch(diffHunk)
PositionParsed(line, originalLine, diffHunk, diffSide, p) ==
  [err |-> FALSE,
   pos |-> [Line |-> line, OriginalLine |-> originalLine,
            StartLine |-> line, EndLine |-> line,
            OriginalStartLine |-> originalLine, OriginalEndLine |-> originalLine,
            DiffSide |-> diffSide,
            IsOutdated |-> IsOutdated(line, originalLine, diffHunk, diffSide, p)]]

CalculateCommentPosition(line, originalLine, diffHunk, diffSide) ==
  PositionParsed(line, originalLine, diffHunk, diffSide, ParsePatch(diffHunk))

\* the line number GetCommentingRanges looks at
RangeLineNum(line, isBase) ==
  IF isBase THEN line.OldLineNumber ELSE line.NewLineNumber

\* isCommentable with Delete and Add exchanged
IsCommentable_SidesSwapped(line, isBase) ==
  IF isBase THEN line.Type \in {"Add", "Context"}
            ELSE line.Type \in {"Delete", "Context"}

\* isCommentable
IsCommentable(line, isBase) ==
  IF isBase THEN line.Type \in {"Delete", "Context"}
            ELSE line.Type \in {"Add", "Context"}

\* the loop over the lines of one hunk with a range that stays open across the
\* lines that cannot be commented on
RECURSIVE HunkRanges_NoBreak(_, _, _, _, _, _)
HunkRanges_NoBreak(lines, k, isBase, inRange, rangeStart, rangeEnd) ==
  IF k > Len(lines)
    THEN IF inRange THEN <<<<rangeStart, rangeEnd>>>> ELSE <<>>
  ELSE IF IsCommentable(lines[k], isBase) /\ RangeLineNum(lines[k], isBase) > 0
    THEN IF ~inRange
           THEN HunkRanges_NoBreak(lines, k + 1, isBase, TRUE,
                                   RangeLineNum(lines[k], isBase),
                                   RangeLineNum(lines[k], isBase))
           ELSE HunkRanges_NoBreak(lines, k + 1, isBase, TRUE,
                                   rangeStart, RangeLineNum(lines[k], isBase))
    ELSE HunkRanges_NoBreak(lines, k + 1, isBase, inRange, rangeStart, rangeEnd)

\* the loop of GetCommentingRanges over the lines of one hunk from index k on,
\* and the closing of the range at the end of the hunk
RECURSIVE HunkRanges(_, _, _, _, _, _)
HunkRanges(lines, k, isBase, inRange, rangeStart, rangeEnd) ==
  IF k > Len(lines)
    THEN IF inRange THEN <<<<rangeStart, rangeEnd>>>> ELSE <<>>
  ELSE IF IsCommentable(lines[k], isBase) /\ RangeLineNum(lines[k], isBase) > 0
    THEN IF ~inRange
           THEN HunkRanges(lines, k + 1, isBase, TRUE,
                           RangeLineNum(lines[k], isBase), RangeLineNum(lines[k], isBase))
           ELSE HunkRanges(lines, k + 1, isBase, TRUE,
                           rangeStart, RangeLineNum(lines[k], isBase))
  ELSE IF inRange
    THEN <<<<rangeStart, rangeEnd>>>>
           \o HunkRanges(lines, k + 1, isBase, FALSE, rangeStart, rangeEnd)
    ELSE HunkRanges(lines, k + 1, isBase, FALSE, rangeStart, rangeEnd)

\* the loop of GetCommentingRanges over the hunks from index h on
RECURSIVE RangesFrom(_, _, _)
RangesFrom(hunks, h, isBase) ==
  IF h > Len(hunks) THEN <<>>
  ELSE HunkRanges(hunks[h].Lines, 1, isBase, FALSE, 0, 0)
         \o RangesFrom(hunks, h + 1, isBase)

\* GetCommentingRanges once ParsePatch has returned p
RangesParsed(p, isBase) ==
  IF ~p.ok THEN [ok |-> FALSE, ranges |-> <<>>]
  ELSE [ok |-> TRUE, ranges |-> RangesFrom(p.hunks, 1, isBase)]

GetCommentingRanges(patch, isBase) == RangesParsed(ParsePatch(patch), isBase)

(***************************************************************************)
(* pkg/applier: Applier.createPatch                                        *)
(***************************************************************************)
contextSize == 3

\* the indices of the Add lines of a parsed hunk
AddIndices(lines) == {i \in 1..Len(lines) : lines[i].Type = "Add"}

\* the new line number of the first Add line
FirstAddNewLine(lines) ==
  lines[CHOOSE i \in AddIndices(lines) : \A k \in AddIndices(lines) : i <= k].NewLineNumber

\* Strategy 1 once ParseDiffHunk has returned p, with line - 1 in place of
\* GetZeroBased(line)
Strategy1Parsed_PlainMinusOne(p) ==
  IF p.ok /\ AddIndices(p.hunk.Lines) # {}
    THEN FirstAddNewLine(p.hunk.Lines) - 1
    ELSE -1

\* Strategy 1 once ParseDiffHunk has returned p: the loop over parsedHunk.Lines
Strategy1Parsed(p) ==
  IF p.ok /\ AddIndices(p.hunk.Lines) # {}
    THEN GetZeroBased(FirstAddNewLine(p.hunk.Lines))
    ELSE -1

\* Strategy 1 with line - 1 in place of GetZeroBased(line)
Strategy1Target_PlainMinusOne(diffHunk) ==
  IF diffHunk = <<>> THEN -1 ELSE Strategy1Parsed_PlainMinusOne(ParseDiffHunk(diffHunk))

\* Strategy 1: the 0-based new position of the first Add line, -1 if none
Strategy1Target(diffHunk) ==
  IF diffHunk = <<>> THEN -1 ELSE Strategy1Parsed(ParseDiffHunk(diffHunk))

\* fileLines[i..i+len(lines)) equals lines element-wise (i is 0-based)
MatchAt(fileLines, i, lines) ==
  \A j \in 0..(Len(lines) - 1) : fileLines[i + j + 1] = lines[j + 1]

\* Strategy 2 with the loop condition i < len(fileLines)-len(addedLines)
ContentMatch_ShortLoop(fileLines, addedLines) ==
  LET offs == {i \in 0..(Len(fileLines) - Len(addedLines) - 1) :
                 MatchAt(fileLines, i, addedLines)}
  IN IF offs = {} THEN -1 ELSE CHOOSE i \in offs : \A k \in offs : i <= k

\* Strategy 2: the first 0-based offset at which addedLines occur, -1 if none
ContentMatch(fileLines, addedLines) ==
  LET offs == {i \in 0..(Len(fileLines) - Len(addedLines)) :
                 MatchAt(fileLines, i, addedLines)}
  IN IF offs = {} THEN -1 ELSE CHOOSE i \in offs : \A k \in offs : i <= k

\* whether the verification block is entered
VerifyInRange(fileLines, target, addedLines) ==
  target >= 0 /\ target + Len(addedLines) <= Len(fileLines)

\* the verification loop reporting the 0-based index targetLine + j
MismatchLine_ZeroBased(fileLines, target, addedLines) ==
  LET bad == {j \in 0..(Len(addedLines) - 1) :
                fileLines[target + j + 1] # addedLines[j + 1]}
  IN IF bad = {} THEN 0
     ELSE target + (CHOOSE j \in bad : \A k \in bad : j <= k)

\* the verification loop: 1-based line of the first difference, 0 if none
MismatchLine(fileLines, target, addedLines) ==
  LET bad == {j \in 0..(Len(addedLines) - 1) :
                fileLines[target + j + 1] # addedLines[j + 1]}
  IN IF bad = {} THEN 0
     ELSE target + (CHOOSE j \in bad : \A k \in bad : j <= k) + 1

\* saveMismatchDiff: the EXPECTED and ACTUAL sections of the diagnostic
DiagEntry(targetLine, i, mismatchLine, text) ==
  [marker |-> IF targetLine + i + 1 = mismatchLine THEN "!" ELSE " ",
   line   |-> targetLine + i + 1,
   text   |-> text]

saveMismatchDiff(fileLines, targetLine, expectedLines, mismatchLine) ==
  [mismatchLine |-> mismatchLine,
   expected |-> [i \in 1..Len(expectedLines) |->
                   DiagEntry(targetLine, i - 1, mismatchLine, expectedLines[i])],
   actual   |-> [i \in 1..Min(Len(expectedLines), Max(0, Len(fileLines) - targetLine)) |->
                   DiagEntry(targetLine, i - 1, mismatchLine, fileLines[targetLine + i])]]

NoDiag == [mismatchLine |-> 0, expected |-> <<>>, actual |-> <<>>]

\* window of the synthesized hunk, 0-based [startLine, endLine)
StartLine(targetLine) == Max(0, targetLine - contextSize)

EndLine(fileLines, targetLine, removeCount) ==
  Min(Len(fileLines), targetLine + removeCount + contextSize)

\* strings.Split(strings.TrimSuffix(comment.SuggestedCode, "\n"), "\n")
SuggestionLines(code) == SplitLines(TrimSuffixNL(code))

\* the index expressions of the three loops over fileLines stay in range
SynthesisInRange(fileLines, targetLine, removeCount) ==
  targetLine + removeCount <= Len(fileLines)

\* every line of ls prefixed with mark and followed by "\n", concatenated
RECURSIVE Prefixed(_, _)
Prefixed(mark, ls) ==
  IF ls = <<>> THEN <<>>
  ELSE <<mark>> \o ls[1] \o <<NL>> \o Prefixed(mark, Tail(ls))

DiffGitLine(path) ==
  <<"d", "i", "f", "f", " ", "-", "-", "g", "i", "t", " ", "a", "/">> \o path
    \o <<" ", "b", "/">> \o path \o <<NL>>

MinusLine(path) == <<"-", "-", "-", " ", "a", "/">> \o path \o <<NL>>

PlusLine(path) == <<"+", "+", "+", " ", "b", "/">> \o path \o <<NL>>

\* the hunk header written with the old count on both sides
HunkHeader_SameCounts(oldStart, oldCount, newStart, newCount) ==
  <<"@", "@", " ", "-">> \o Itoa(oldStart) \o <<",">> \o Itoa(oldCount)
    \o <<" ", "+">> \o Itoa(newStart) \o <<",">> \o Itoa(oldCount)
    \o <<" ", "@", "@", NL>>

\* fmt.Sprintf("@@ -%d,%d +%d,%d @@\n", ...)
HunkHeader(oldStart, oldCount, newStart, newCount) ==
  <<"@", "@", " ", "-">> \o Itoa(oldStart) \o <<",">> \o Itoa(oldCount)
    \o <<" ", "+">> \o Itoa(newStart) \o <<",">> \o Itoa(newCount)
    \o <<" ", "@", "@", NL>>

\* the patch text with the suggested lines written before the removed lines
SynthesizePatch_PlusFirst(path, fileLines, targetLine, removeCount, code) ==
  LET startLine == StartLine(targetLine)
      endLine == EndLine(fileLines, targetLine, removeCount)
      oldLineCount == endLine - startLine
      suggestionLines == SuggestionLines(code)
      newLineCount == (endLine - startLine) - removeCount + Len(suggestionLines)
  IN DiffGitLine(path) \o MinusLine(path) \o PlusLine(path)
       \o HunkHeader(startLine + 1, oldLineCount, startLine + 1, newLineCount)
       \o Prefixed(" ", SubSeq(fileLines, startLine + 1, targetLine))
       \o Prefixed("+", suggestionLines)
       \o Prefixed("-", SubSeq(fileLines, targetLine + 1, targetLine + removeCount))
       \o Prefixed(" ", SubSeq(fileLines, targetLine + removeCount + 1, endLine))

\* the patch text written once the target is settled
SynthesizePatch(path, fileLines, targetLine, removeCount, code) ==
  LET startLine == StartLine(targetLine)
      endLine == EndLine(fileLines, targetLine, removeCount)
      oldLineCount == endLine - startLine
      suggestionLines == SuggestionLines(code)
      newLineCount == (endLine - startLine) - removeCount + Len(suggestionLines)
  IN DiffGitLine(path) \o MinusLine(path) \o PlusLine(path)
       \o HunkHeader(startLine + 1, oldLineCount, startLine + 1, newLineCount)
       \o Prefixed(" ", SubSeq(fileLines, startLine + 1, targetLine))
       \o Prefixed("-", SubSeq(fileLines, targetLine + 1, targetLine + removeCount))
       \o Prefixed("+", suggestionLines)
       \o Prefixed(" ", SubSeq(fileLines, targetLine + removeCount + 1, endLine))

\* createPatch once the target is settled: verification, then synthesis
createPatchAt(c, fileLines, addedLines, targetLine) ==
  IF targetLine = -1
    THEN [kind |-> "error", patch |-> <<>>]
  ELSE IF /\ VerifyInRange(fileLines, targetLine, addedLines)
          /\ MismatchLine(fileLines, targetLine, addedLines) # 0
    THEN [kind |-> "error", patch |-> <<>>]
  ELSE IF ~SynthesisInRange(fileLines, targetLine, Len(addedLines))
    THEN [kind |-> "panic", patch |-> <<>>]
    ELSE [kind |-> "patch",
          patch |-> SynthesizePatch(c.Path, fileLines, targetLine, Len(addedLines),
                                    c.SuggestedCode)]

\* createPatch as one call on the content of the file at c.Path
createPatch(content, c) ==
  IF Len(GetAddedLines(c.DiffHunk)) = 0
    THEN [kind |-> "error", patch |-> <<>>]
    ELSE createPatchAt(c, SplitLines(content), GetAddedLines(c.DiffHunk),
                       IF Strategy1Target(c.DiffHunk) # -1
                         THEN Strategy1Target(c.DiffHunk)
                         ELSE ContentMatch(SplitLines(content),
                                           GetAddedLines(c.DiffHunk)))

\* "git apply --unidiff-zero -": the file once the patch went in
GitApplied(content, patch) ==
  GetModifiedContentFromDiffHunk(content, patch).content

\* "git apply --unidiff-zero -": the whole patch goes in, or git apply fails
\* and leaves the file alone
GitApply(content, patch) ==
  {[result |-> "applied", content |-> GitApplied(content, patch)],
   [result |-> "error", content |-> content]}

\* applySuggestion: createPatch, then git apply of the patch; an error of
\* either is returned, a panic of createPatch ends the program
applySuggestion(content, c) ==
  IF createPatch(content, c).kind = "patch"
    THEN GitApply(content, createPatch(content, c).patch)
    ELSE {[result |-> createPatch(content, c).kind, content |-> content]}

\* "git checkout -- filePath": the file is restored from the index, or git
\* checkout fails and leaves the file alone
GitCheckout(content, index) == {index, content}

(***************************************************************************)
(* Inputs: file contents, review hunks and suggestions.                    *)
(***************************************************************************)
\* sequences over S of length at most n
BSeq(S, n) == UNION {[1..k -> S] : k \in 0..n}

\* line contents
Texts == {<<"a">>, <<"b">>}

\* the working-copy file: missing, or lines joined by "\n", with or without a
\* final newline
ShortFileContents ==
  {JoinLines(ls) \o tail : ls \in BSeq(Texts, MaxFileLines), tail \in {<<>>, <<NL>>}}

\* a file long enough for a context window that ends inside it on both
\* sides: "b" on its fifth line, "a" on the four lines before and after
LongFileContent ==
  JoinLines(<<<<"a">>, <<"a">>, <<"a">>, <<"a">>, <<"b">>,
              <<"a">>, <<"a">>, <<"a">>, <<"a">>>>)

FileContents == ShortFileContents \cup {LongFileContent}

Files ==
  {[exists |-> TRUE, content |-> c] : c \in FileContents}
    \cup {[exists |-> FALSE, content |-> <<>>]}

\* body lines of a review hunk
BodyLines == {<<" ", "a">>, <<"+", "a">>, <<"+", "b">>, <<"-", "a">>}

Bodies == BSeq(BodyLines, MaxBodyLines)

OldCount(body) == Cardinality({i \in 1..Len(body) : Len(body[i]) > 0 /\ body[i][1] \in {" ", "-"}})

NewCount(body) == Cardinality({i \in 1..Len(body) : Len(body[i]) > 0 /\ body[i][1] \in {" ", "+"}})

\* "@@ -os,ol +ns,nl @@" followed by the body lines
HunkText(os, ol, ns, nl, body) ==
  <<"@", "@", " ", "-">> \o Itoa(os) \o <<",">> \o Itoa(ol)
    \o <<" ", "+">> \o Itoa(ns) \o <<",">> \o Itoa(nl) \o <<" ", "@", "@">>
    \o (IF body = <<>> THEN <<>> ELSE <<NL>> \o JoinLines(body))

\* a first line that is no hunk header
BadHeader == <<"@", "@", " ", "x">>

\* review hunks: the header's new start is free (the file may have drifted),
\* the header may be unparseable, the text may be empty
DiffHunks ==
  {HunkText(ns, OldCount(b), ns, NewCount(b), b) : ns \in 0..MaxNewStart, b \in Bodies}
    \cup {BadHeader \o (IF b = <<>> THEN <<>> ELSE <<NL>> \o JoinLines(b)) : b \in Bodies}
    \cup {<<>>}

SuggestedCodes == {<<"c">>, <<"c", NL, "d", NL>>}

CommentPath == <<"f">>

\* body lines of the hunks of a patch handed to the position mapper
MapLines == {<<" ", "a">>, <<"+", "a">>, <<"-", "a">>}

\* "@@ -os +ns @@" (both counts omitted) followed by the body lines
HunkTextNoCounts(os, ns, body) ==
  <<"@", "@", " ", "-">> \o Itoa(os) \o <<" ", "+">> \o Itoa(ns) \o <<" ", "@", "@">>
    \o (IF body = <<>> THEN <<>> ELSE <<NL>> \o JoinLines(body))

\* body lines with a marker ParseDiffHunk does not know, and a control line
OddLines == {<<"x", "a">>, <<"\\", "a">>}

\* a hunk whose header counts its body, omits the counts, or counts one line
\* more on each side than the body has (a hunk text cut short)
MapHunk(mode, os, ns, body) ==
  IF mode = "counts"
    THEN HunkText(os, OldCount(body), ns, NewCount(body), body)
  ELSE IF mode = "cut"
    THEN HunkText(os, OldCount(body) + 1, ns, NewCount(body) + 1, body)
    ELSE HunkTextNoCounts(os, ns, body)

OneHunkPatches ==
  {MapHunk(mode, os, os, b) :
     mode \in {"counts", "omitted", "cut"}, os \in 1..MaxStart,
     b \in BSeq(MapLines \cup OddLines, MaxPatchLines)}

\* two hunks: the second starts slack lines after the old lines the first one's
\* body covers (-1: it overlaps the first or precedes it), its new start
\* follows the first hunk's delta or ignores it
TwoHunkParams ==
  {q \in [os : 1..MaxStart, slack : {-1, 0, 1}, track : BOOLEAN,
          b1 : BSeq(MapLines, MaxPatchLines), b2 : BSeq(MapLines, MaxPatchLines)] :
     /\ Len(q.b1) + Len(q.b2) <= MaxPatchLines
     /\ q.os + OldCount(q.b1) + q.slack >= 0
     /\ q.os + NewCount(q.b1) + q.slack >= 0}

TwoHunkPatch(q) ==
  LET os2 == q.os + OldCount(q.b1) + q.slack
      ns2 == IF q.track THEN os2 + NewCount(q.b1) - OldCount(q.b1) ELSE os2
  IN MapHunk("counts", q.os, q.os, q.b1) \o <<NL>> \o MapHunk("counts", os2, ns2, q.b2)

\* texts ParsePatch rejects: no header line, a header line that is no hunk header
BadPatches ==
  {<<>>, <<"@", "@", " ", "x", " ", "@", "@", NL, "+", "a">>}

\* a hunk without old lines and one without new lines, each with the line
\* before as the start of the side without lines, as git writes them
ZeroCountPatches ==
  {HunkText(2, 0, 3, 1, <<<<"+", "a">>>>), HunkText(2, 1, 1, 0, <<<<"-", "a">>>>)}

Patches ==
  OneHunkPatches \cup {TwoHunkPatch(q) : q \in TwoHunkParams} \cup ZeroCountPatches
    \cup BadPatches

\* line numbers handed to the position mapper
MaxLine == MaxStart + MaxPatchLines + 1

\* body lines of the texts handed to the parser: every marker, a marker
\* ParseDiffHunk does not know, a control line and an empty line
HunkLines == MapLines \cup OddLines \cup {<<>>}

\* text after the closing "@@" of a header
Annotation == <<" ", "f", "(", ")">>

\* a hunk text by the form of its header: the forms of MapHunk, and a header
\* with text after its closing "@@"
FormedHunk(form, os, ns, body) ==
  IF form = "annotated"
    THEN <<"@", "@", " ", "-">> \o Itoa(os) \o <<",">> \o Itoa(OldCount(body))
           \o <<" ", "+">> \o Itoa(ns) \o <<",">> \o Itoa(NewCount(body))
           \o <<" ", "@", "@">> \o Annotation
           \o (IF body = <<>> THEN <<>> ELSE <<NL>> \o JoinLines(body))
    ELSE MapHunk(form, os, ns, body)

HeaderForms == {"counts", "omitted", "cut", "annotated"}

\* first lines that headerRegex does not match; hunkRegex matches the last
\* three of them
BadFirstLines ==
  {<<>>,
   <<" ", "a">>,
   BadHeader,
   <<"@", "@", " ", "-", "1", " ", "+", "1", " ", "@">>,
   <<"@", "@", " ", "-", "1", ",", " ", "+", "1", " ", "@", "@">>,
   <<"@", "@", "-", "1", " ", "+", "1", " ", "@", "@">>,
   <<"@", "@", " ", "-", "1", " ", "@", "@">>,
   <<"@", "@", " ", "x", " ", "@", "@">>}

\* a first line and the body lines after it
WithBody(first, body) ==
  first \o (IF body = <<>> THEN <<>> ELSE <<NL>> \o JoinLines(body))

\* texts of one hunk, the new start one above the old start
OneHunkTexts ==
  {FormedHunk(form, os, os + 1, b) :
     form \in HeaderForms, os \in 1..MaxStart, b \in BSeq(HunkLines, MaxPatchLines)}

BadHunkTexts ==
  {WithBody(first, b) : first \in BadFirstLines, b \in BSeq(MapLines, 1)}

\* the lines of a patch before its first hunk
Preamble == <<"d", "i", "f", "f", NL>>

\* two hunks, the second one slack lines after the lines of the first (0: it
\* follows them directly, -1: it starts on the first one's last line), with or
\* without lines before the first
TwoHunkTextParams ==
  {q \in [os : 1..MaxStart, slack : {-1, 0, 1}, pre : BOOLEAN,
          b1 : BSeq(MapLines \cup {<<"\\", "a">>}, MaxPatchLines),
          b2 : BSeq(MapLines \cup {<<"\\", "a">>}, MaxPatchLines)] :
     /\ Len(q.b1) + Len(q.b2) <= MaxPatchLines
     /\ Len(q.b1) > 0
     /\ q.os + OldCount(q.b1) + q.slack > 0
     /\ q.os + NewCount(q.b1) + q.slack > 0}

TwoHunkText(q) ==
  (IF q.pre THEN Preamble ELSE <<>>)
    \o MapHunk("counts", q.os, q.os, q.b1) \o <<NL>>
    \o MapHunk("counts", q.os + OldCount(q.b1) + q.slack,
               q.os + NewCount(q.b1) + q.slack, q.b2)

\* patches one hunk of which ParseDiffHunk rejects, and a text without header
FailingPatches ==
  {WithBody(BadHeader \o <<" ", "@", "@">>, <<<<"+", "a">>>>) \o <<NL>>
     \o MapHunk("counts", 1, 1, <<<<" ", "a">>>>),
   MapHunk("counts", 1, 1, <<<<" ", "a">>>>) \o <<NL>>
     \o WithBody(BadHeader \o <<" ", "@", "@">>, <<<<"+", "a">>>>),
   Preamble \o <<" ", "a">>}

HunkInputs ==
  OneHunkTexts \cup BadHunkTexts \cup {TwoHunkText(q) : q \in TwoHunkTextParams}
    \cup FailingPatches

\* an original text whose lines all read "a": the old-side lines of the hunks
\* above are lines of it
PlainOriginal == JoinLines([i \in 1..MaxLine |-> <<"a">>])

\* an original text whose i-th line reads i
NumberedOriginal == JoinLines([i \in 1..MaxLine |-> Itoa(i)])

\* what a hunk does line by line: keep an old line, delete it, add a line
EditOps == {"keep", "delete", "add"}

\* how many of the ops before index k stand for an old line
OldBefore(ops, k) == Cardinality({j \in 1..(k - 1) : ops[j] # "add"})

\* the body lines of a hunk that starts at old line os of the numbered original
EditBody(os, ops) ==
  [k \in 1..Len(ops) |->
     IF ops[k] = "keep" THEN <<" ">> \o Itoa(os + OldBefore(ops, k))
     ELSE IF ops[k] = "delete" THEN <<"-">> \o Itoa(os + OldBefore(ops, k))
     ELSE <<"+", "x">>]

\* one or two hunks on the numbered original, the second one slack lines
\* after the old lines of the first; delta is added to the second new start;
\* the new start of a single hunk is its old start plus shift
EditParams ==
  {q \in [form : {"counts", "omitted", "cut"}, os : 0..MaxStart, slack : {-1, 0, 1},
          shift : {-1, 0, 1},
          ops1 : BSeq(EditOps, MaxPatchLines), ops2 : BSeq(EditOps, MaxPatchLines)] :
     /\ Len(q.ops1) + Len(q.ops2) <= MaxPatchLines
     /\ Len(q.ops1) > 0
     /\ q.ops2 = <<>> => q.slack = 0
     /\ q.form # "counts" => q.ops2 = <<>>
     /\ q.shift # 0 => (q.form = "counts" /\ q.ops2 = <<>> /\ q.os > 0)
     /\ q.os = 0 => \A k \in 1..Len(q.ops1) : q.ops1[k] = "add"
     /\ q.os + OldBefore(q.ops1, Len(q.ops1) + 1) + q.slack >= 1}

\* the new start of a hunk at old line os when delta lines were added before:
\* git writes the line before for a side without lines
EditPatch(q) ==
  MapHunk(q.form, q.os, IF q.os = 0 THEN 1 ELSE q.os + q.shift,
          EditBody(q.os, q.ops1))
    \o (IF q.ops2 = <<>> THEN <<>>
        ELSE <<NL>>
               \o MapHunk("counts",
                          q.os + OldBefore(q.ops1, Len(q.ops1) + 1) + q.slack,
                          q.os + NewCount(EditBody(q.os, q.ops1)) + q.slack,
                          EditBody(q.os + OldBefore(q.ops1, Len(q.ops1) + 1) + q.slack,
                                   q.ops2)))

\* original and patch handed to GetModifiedContentFromDiffHunk; the texts of
\* the parser with the plain original
ModifyInputs ==
  {<<NumberedOriginal, EditPatch(q)>> : q \in EditParams}
    \cup {<<PlainOriginal, t>> : t \in HunkInputs}

\* positions handed to GetDiffLineByPosition
MaxPosition == MaxPatchLines + 1

\* the suggestions of a session: one on line 1, one on line 3, one whose hunk
\* adds "b", one whose hunk adds nothing, one whose hunk has no header
SessionHunks ==
  {HunkText(1, 0, 1, 1, <<<<"+", "a">>>>),
   HunkText(3, 0, 3, 1, <<<<"+", "a">>>>),
   HunkText(1, 0, 1, 1, <<<<"+", "b">>>>),
   HunkText(1, 1, 1, 1, <<<<" ", "a">>>>),
   BadHeader \o <<NL, "+", "b">>}

SessionSuggestions ==
  {[Path |-> CommentPath, DiffHunk |-> h, SuggestedCode |-> <<"c">>] :
     h \in SessionHunks}

MaxSuggestions == 3

\* the file of a session, in the working copy and in the index; a session
\* of ApplyInteractive has one suggestion fewer than MaxSuggestions
SessionContents ==
  {JoinLines(<<<<"a">>, <<"b">>, <<"a">>>>), JoinLines(<<<<"a">>>>),
   JoinLines(<<<<"b">>, <<"a">>>>)}

\* patches the AI provider returns
AIPatches ==
  {HunkText(1, 1, 1, 1, <<<<"-", "a">>, <<"+", "c">>>>),
   HunkText(1, 0, 1, 1, <<<<"+", "d">>>>)}

\* what the editor leaves in the file besides what it found
EditedContent == JoinLines(<<<<"e">>>>)

(***************************************************************************)
(* State.                                                                  *)
(***************************************************************************)
VARIABLES
  comment,     \* the review comment: Path, DiffHunk, SuggestedCode
  disk,        \* the file at comment.Path
  pc,          \* position inside createPatch
  fileLines,   \* createPatch's fileLines
  addedLines,  \* createPatch's addedLines
  targetLine,  \* createPatch's targetLine
  strategy,    \* which strategy set targetLine (0: none yet)
  searched,    \* whether the content search loop ran
  verified,    \* "no", "passed", "failed" or "skipped"
  out,         \* what createPatch returned
  applied,     \* the file with the returned patch applied to it
  mpatch,      \* the patch text handed to the position mapper
  mpc,         \* "start", "old2new", "new2old", "backToOld" or "backToNew"
  mparsed,     \* what ParsePatch returned to the first mapping call
  marg,        \* the line number of the first mapping call
  mres,        \* what the first mapping call returned
  mback,       \* what mapping its result back returned
  cline,       \* CalculateCommentPosition's line
  corig,       \* CalculateCommentPosition's originalLine
  cside,       \* CalculateCommentPosition's diffSide
  cpos,        \* what CalculateCommentPosition returned
  htext,       \* the hunk or patch text handed to the parser
  hpc,         \* "start", "hunk", "patch", "line" or "ranges"
  hhunk,       \* what ParseDiffHunk returned
  hparsed,     \* what ParsePatch returned
  hn,          \* the position handed to GetDiffLineByPosition
  hbase,       \* the isBase handed to GetCommentingRanges
  hline,       \* what GetDiffLineByPosition returned
  hranges,     \* what GetCommentingRanges returned
  horig,       \* the original text handed to GetModifiedContentFromDiffHunk
  hmod,        \* what GetModifiedContentFromDiffHunk returned
  hlines,      \* what GetAddedLines or GetRemovedLines returned
  smode,       \* "all" (ApplyAll) or "interactive" (ApplyInteractive)
  squeue,      \* the suggestions handed to the session
  snext,       \* the index of the suggestion the loop is at
  swork,       \* the content of the file in the working copy
  sindex,      \* the content of the file in the git index
  spc,         \* "loop", "edit", "editor", "confirm", "returned", "end", "crashed"
  slog,        \* per attempt: its result, the file before and after it
  spatch,      \* the patch handed to applyPatchAndEditFile
  sbefore,     \* the file when applyPatchAndEditFile was called
  sret         \* what applyPatchAndEditFile returned

avars == <<comment, disk, pc, fileLines, addedLines, targetLine, strategy,
           searched, verified, out, applied>>

cvars == <<cline, corig, cside, cpos>>

mvars == <<mpatch, mpc, mparsed, marg, mres, mback, cvars>>

hvars == <<htext, hpc, hhunk, hparsed, hn, hbase, hline, hranges, horig, hmod, hlines>>

svars == <<smode, squeue, snext, swork, sindex, spc, slog, spatch, sbefore, sret>>

vars == <<avars, mvars, hvars, svars>>

NoOut ==
  [kind |-> "none", err |-> "", patch |-> <<>>, mismatchLine |-> 0,
   lookingFor |-> 0, startingWith |-> <<>>, diag |-> NoDiag, diagSaved |-> FALSE]

NoMap == [val |-> 0, ok |-> FALSE]

NoParse == [ok |-> FALSE, err |-> "", index |-> -1, hunks |-> <<>>]

NoHunk == [ok |-> FALSE, hunk |-> NilHunk]

NoRanges == [ok |-> FALSE, ranges |-> <<>>]

NoContent == [ok |-> FALSE, content |-> <<>>]

ParserIdle ==
  /\ htext = <<>>
  /\ hpc = "idle"
  /\ hhunk = NoHunk
  /\ hparsed = NoParse
  /\ hn = 0
  /\ hbase = FALSE
  /\ hline = NoLine
  /\ hranges = NoRanges
  /\ horig = <<>>
  /\ hmod = NoContent
  /\ hlines = <<>>

NoPos ==
  [err |-> FALSE,
   pos |-> [Line |-> 0, OriginalLine |-> 0, StartLine |-> 0, EndLine |-> 0,
            OriginalStartLine |-> 0, OriginalEndLine |-> 0, DiffSide |-> "",
            IsOutdated |-> FALSE]]

PositionIdle ==
  /\ cline = 0
  /\ corig = 0
  /\ cside = ""
  /\ cpos = NoPos

MapperIdle ==
  /\ PositionIdle
  /\ mpatch = <<>>
  /\ mpc = "idle"
  /\ mparsed = NoParse
  /\ marg = 0
  /\ mres = NoMap
  /\ mback = NoMap

SessionIdle ==
  /\ smode = "idle"
  /\ squeue = <<>>
  /\ snext = 0
  /\ swork = <<>>
  /\ sindex = <<>>
  /\ spc = "idle"
  /\ slog = <<>>
  /\ spatch = <<>>
  /\ sbefore = <<>>
  /\ sret = "none"

Init ==
  /\ MapperIdle
  /\ ParserIdle
  /\ SessionIdle
  /\ comment \in {[Path |-> CommentPath, DiffHunk |-> h, SuggestedCode |-> c] :
                    h \in DiffHunks, c \in SuggestedCodes}
  /\ disk \in Files
  /\ pc = "read"
  /\ fileLines = <<>>
  /\ addedLines = <<>>
  /\ targetLine = -1
  /\ strategy = 0
  /\ searched = FALSE
  /\ verified = "no"
  /\ out = NoOut
  /\ applied = NoContent

\* os.ReadFile and strings.Split
ReadFile ==
  /\ pc = "read"
  /\ IF disk.exists
       THEN /\ fileLines' = SplitLines(disk.content)
            /\ pc' = "extract"
            /\ out' = out
       ELSE /\ out' = [NoOut EXCEPT !.kind = "error", !.err = "failed to read file"]
            /\ pc' = "done"
            /\ fileLines' = fileLines
  /\ UNCHANGED <<mvars, hvars, svars, applied>>
  /\ UNCHANGED <<comment, disk, addedLines, targetLine, strategy, searched, verified>>

\* diffhunk.GetAddedLines and the empty check
ExtractAddedLines ==
  /\ pc = "extract"
  /\ addedLines' = GetAddedLines(comment.DiffHunk)
  /\ IF Len(addedLines') = 0
       THEN /\ out' = [NoOut EXCEPT !.kind = "error",
                                    !.err = "no added lines found in diff hunk"]
            /\ pc' = "done"
       ELSE /\ out' = out
            /\ pc' = "strategy1"
  /\ UNCHANGED <<mvars, hvars, svars, applied>>
  /\ UNCHANGED <<comment, disk, fileLines, targetLine, strategy, searched, verified>>

\* Strategy 1: position mapping
Strategy1 ==
  /\ pc = "strategy1"
  /\ targetLine' = Strategy1Target(comment.DiffHunk)
  /\ IF targetLine' = -1
       THEN pc' = "strategy2" /\ strategy' = strategy
       ELSE pc' = "verify" /\ strategy' = 1
  /\ UNCHANGED <<mvars, hvars, svars, applied>>
  /\ UNCHANGED <<comment, disk, fileLines, addedLines, searched, verified, out>>

\* Strategy 2: content matching
Strategy2 ==
  /\ pc = "strategy2"
  /\ searched' = TRUE
  /\ LET matchStart == ContentMatch(fileLines, addedLines) IN
       IF matchStart = -1
         THEN /\ out' = [NoOut EXCEPT !.kind = "error",
                                      !.err = "could not find the code to replace in current file",
                                      !.lookingFor = Len(addedLines),
                                      !.startingWith = addedLines[1]]
              /\ pc' = "done"
              /\ UNCHANGED <<targetLine, strategy>>
         ELSE /\ targetLine' = matchStart
              /\ strategy' = 2
              /\ pc' = "verify"
              /\ out' = out
  /\ UNCHANGED <<mvars, hvars, svars, applied>>
  /\ UNCHANGED <<comment, disk, fileLines, addedLines, verified>>

\* verification of the content at the target position; the diagnostic file may
\* or may not be written
Verify ==
  /\ pc = "verify"
  /\ IF VerifyInRange(fileLines, targetLine, addedLines)
       THEN LET mismatchLine == MismatchLine(fileLines, targetLine, addedLines) IN
            IF mismatchLine # 0
              THEN /\ \E saved \in BOOLEAN :
                        out' = [NoOut EXCEPT
                                  !.kind = "error",
                                  !.err = "content mismatch",
                                  !.mismatchLine = mismatchLine,
                                  !.diag = saveMismatchDiff(fileLines, targetLine,
                                                            addedLines, mismatchLine),
                                  !.diagSaved = saved]
                   /\ verified' = "failed"
                   /\ pc' = "done"
              ELSE /\ verified' = "passed"
                   /\ pc' = "synthesize"
                   /\ out' = out
       ELSE /\ verified' = "skipped"
            /\ pc' = "synthesize"
            /\ out' = out
  /\ UNCHANGED <<mvars, hvars, svars, applied>>
  /\ UNCHANGED <<comment, disk, fileLines, addedLines, targetLine, strategy, searched>>

\* patch synthesis; an index past the end of fileLines is a run-time panic
Synthesize ==
  /\ pc = "synthesize"
  /\ IF SynthesisInRange(fileLines, targetLine, Len(addedLines))
       THEN out' = [NoOut EXCEPT
                      !.kind = "patch",
                      !.patch = SynthesizePatch(comment.Path, fileLines, targetLine,
                                                Len(addedLines), comment.SuggestedCode)]
       ELSE out' = [NoOut EXCEPT !.kind = "panic", !.err = "index out of range"]
  /\ pc' = "done"
  /\ UNCHANGED <<mvars, hvars, svars, applied>>
  /\ UNCHANGED <<comment, disk, fileLines, addedLines, targetLine, strategy,
                 searched, verified>>

\* the returned patch applied to the file that createPatch read
ApplyPatch ==
  /\ pc = "done"
  /\ out.kind = "patch"
  /\ applied' = GetModifiedContentFromDiffHunk(disk.content, out.patch)
  /\ pc' = "applied"
  /\ UNCHANGED <<mvars, hvars, svars>>
  /\ UNCHANGED <<comment, disk, fileLines, addedLines, targetLine, strategy,
                 searched, verified, out>>

Next ==
  \/ ReadFile
  \/ ExtractAddedLines
  \/ Strategy1
  \/ Strategy2
  \/ Verify
  \/ Synthesize
  \/ ApplyPatch

Spec == Init /\ [][Next]_vars

(***************************************************************************)
(* The position mapper: one call, then its result mapped back.             *)
(***************************************************************************)
ApplierIdle ==
  /\ comment = [Path |-> CommentPath, DiffHunk |-> <<>>, SuggestedCode |-> <<>>]
  /\ disk = [exists |-> FALSE, content |-> <<>>]
  /\ pc = "idle"
  /\ fileLines = <<>>
  /\ addedLines = <<>>
  /\ targetLine = -1
  /\ strategy = 0
  /\ searched = FALSE
  /\ verified = "no"
  /\ out = NoOut
  /\ applied = NoContent

InitMap ==
  /\ ApplierIdle
  /\ ParserIdle
  /\ SessionIdle
  /\ mpatch \in Patches
  /\ mpc = "start"
  /\ mparsed = NoParse
  /\ marg = 0
  /\ mres = NoMap
  /\ mback = NoMap
  /\ PositionIdle

\* MapOldPositionToNew(mpatch, oldLine): ParsePatch, then the mapping
CallMapOldToNew ==
  /\ mpc = "start"
  /\ mparsed' = ParsePatch(mpatch)
  /\ \E oldLine \in 0..MaxLine :
       /\ marg' = oldLine
       /\ mres' = MapOldParsed(mparsed', oldLine)
  /\ mpc' = "old2new"
  /\ UNCHANGED <<mpatch, mback, cvars>>
  /\ UNCHANGED <<avars, hvars, svars>>

\* MapNewPositionToOld(mpatch, newLine): ParsePatch, then the mapping
CallMapNewToOld ==
  /\ mpc = "start"
  /\ mparsed' = ParsePatch(mpatch)
  /\ \E newLine \in 0..MaxLine :
       /\ marg' = newLine
       /\ mres' = MapNewParsed(mparsed', newLine)
  /\ mpc' = "new2old"
  /\ UNCHANGED <<mpatch, mback, cvars>>
  /\ UNCHANGED <<avars, hvars, svars>>

\* the round trip of TestMapPositionRoundTrip: a mapped line is mapped back;
\* ParsePatch returns to the second call what it returned to the first
MapBackToOld ==
  /\ mpc = "old2new"
  /\ mres.ok /\ mres.val # -1
  /\ mback' = MapNewParsed(mparsed, mres.val)
  /\ mpc' = "backToOld"
  /\ UNCHANGED <<mpatch, mparsed, marg, mres, cvars>>
  /\ UNCHANGED <<avars, hvars, svars>>

MapBackToNew ==
  /\ mpc = "new2old"
  /\ mres.ok /\ mres.val # -1
  /\ mback' = MapOldParsed(mparsed, mres.val)
  /\ mpc' = "backToNew"
  /\ UNCHANGED <<mpatch, mparsed, marg, mres, cvars>>
  /\ UNCHANGED <<avars, hvars, svars>>

\* the values of DiffSide, and a string that is neither
DiffSides == {"LEFT", "RIGHT", "UP"}

\* CalculateCommentPosition(line, originalLine, mpatch, diffSide); originalLine
\* is the line, or the line before or after it; mparsed is what ParsePatch
\* returns to the mapping function it calls
CallCalculateCommentPosition ==
  /\ mpc = "start"
  /\ \E p \in {ParsePatch(mpatch)} :
     \E line \in 0..MaxLine, originalLine \in 0..(MaxLine + 1), diffSide \in DiffSides :
       /\ originalLine \in (line - 1)..(line + 1)
       /\ cline' = line
       /\ corig' = originalLine
       /\ cside' = diffSide
       /\ cpos' = PositionParsed(line, originalLine, mpatch, diffSide, p)
       /\ mparsed' = IF diffSide \in {"LEFT", "RIGHT"} /\ mpatch # <<>>
                        THEN p
                        ELSE mparsed
  /\ mpc' = "position"
  /\ UNCHANGED <<mpatch, marg, mres, mback>>
  /\ UNCHANGED <<avars, hvars, svars>>

NextMap ==
  \/ CallCalculateCommentPosition
  \/ CallMapOldToNew
  \/ CallMapNewToOld
  \/ MapBackToOld
  \/ MapBackToNew

SpecMap == InitMap /\ [][NextMap]_vars

(***************************************************************************)
(* The parser and the functions that read what it returns.                 *)
(***************************************************************************)
InitHunk ==
  /\ ApplierIdle
  /\ MapperIdle
  /\ SessionIdle
  /\ \E input \in ModifyInputs : horig = input[1] /\ htext = input[2]
  /\ hpc = "start"
  /\ hhunk = NoHunk
  /\ hparsed = NoParse
  /\ hn = 0
  /\ hbase = FALSE
  /\ hline = NoLine
  /\ hranges = NoRanges
  /\ hmod = NoContent
  /\ hlines = <<>>

\* ParseDiffHunk(htext)
CallParseDiffHunk ==
  /\ hpc = "start"
  /\ hhunk' = ParseDiffHunk(htext)
  /\ hpc' = "hunk"
  /\ UNCHANGED <<htext, hparsed, hn, hbase, hline, hranges>>
  /\ UNCHANGED <<horig, hmod, hlines>>
  /\ UNCHANGED <<avars, mvars, svars>>

\* ParsePatch(htext)
CallParsePatch ==
  /\ hpc = "start"
  /\ hparsed' = ParsePatch(htext)
  /\ hpc' = "patch"
  /\ UNCHANGED <<htext, hhunk, hn, hbase, hline, hranges>>
  /\ UNCHANGED <<horig, hmod, hlines>>
  /\ UNCHANGED <<avars, mvars, svars>>

\* GetDiffLineByPosition on the hunks ParsePatch returned
CallGetDiffLineByPosition ==
  /\ hpc = "patch"
  /\ hparsed.ok
  /\ \E diffLineNumber \in 0..MaxPosition :
       /\ hn' = diffLineNumber
       /\ hline' = GetDiffLineByPosition(hparsed.hunks, diffLineNumber)
  /\ hpc' = "line"
  /\ UNCHANGED <<htext, hhunk, hparsed, hbase, hranges>>
  /\ UNCHANGED <<horig, hmod, hlines>>
  /\ UNCHANGED <<avars, mvars, svars>>

\* GetCommentingRanges(htext, isBase): ParsePatch, then the loop over the hunks
CallGetCommentingRanges ==
  /\ hpc = "start"
  /\ hparsed' = ParsePatch(htext)
  /\ \E isBase \in BOOLEAN :
       /\ hbase' = isBase
       /\ hranges' = RangesParsed(hparsed', isBase)
  /\ hpc' = "ranges"
  /\ UNCHANGED <<htext, hhunk, hn, hline>>
  /\ UNCHANGED <<horig, hmod, hlines>>
  /\ UNCHANGED <<avars, mvars, svars>>

\* GetModifiedContentFromDiffHunk(horig, htext): ParsePatch, then the loops
CallGetModifiedContent ==
  /\ hpc = "start"
  /\ hparsed' = ParsePatch(htext)
  /\ hmod' = ModifiedParsed(horig, hparsed')
  /\ hpc' = "modified"
  /\ UNCHANGED <<htext, hhunk, hn, hbase, hline, hranges, horig, hlines>>
  /\ UNCHANGED <<avars, mvars, svars>>

\* GetAddedLines(htext), on the text ParseDiffHunk was given
CallGetAddedLines ==
  /\ hpc = "hunk"
  /\ hlines' = GetAddedLines(htext)
  /\ hpc' = "added"
  /\ UNCHANGED <<htext, hhunk, hparsed, hn, hbase, hline, hranges, horig, hmod>>
  /\ UNCHANGED <<avars, mvars, svars>>

\* GetRemovedLines(htext), on the text ParseDiffHunk was given
CallGetRemovedLines ==
  /\ hpc = "hunk"
  /\ hlines' = GetRemovedLines(htext)
  /\ hpc' = "removed"
  /\ UNCHANGED <<htext, hhunk, hparsed, hn, hbase, hline, hranges, horig, hmod>>
  /\ UNCHANGED <<avars, mvars, svars>>

NextHunk ==
  \/ CallGetAddedLines
  \/ CallGetRemovedLines
  \/ CallGetModifiedContent
  \/ CallParseDiffHunk
  \/ CallParsePatch
  \/ CallGetDiffLineByPosition
  \/ CallGetCommentingRanges

SpecHunk == InitHunk /\ [][NextHunk]_vars

(***************************************************************************)
(* A session: ApplyAll or ApplyInteractive over a list of suggestions for  *)
(* one file.                                                               *)
(***************************************************************************)
InitApply ==
  /\ ApplierIdle
  /\ MapperIdle
  /\ ParserIdle
  /\ smode \in {"all", "interactive"}
  /\ squeue \in BSeq(SessionSuggestions, MaxSuggestions)
  /\ smode = "interactive" => Len(squeue) < MaxSuggestions
  /\ snext = 1
  /\ swork \in SessionContents
  /\ sindex \in SessionContents
  /\ spc = "loop"
  /\ slog = <<>>
  /\ spatch = <<>>
  /\ sbefore = <<>>
  /\ sret = "none"

Attempt(result, before, after) ==
  [result |-> result, before |-> before, after |-> after]

\* one iteration of ApplyAll's loop
ApplyAllIteration ==
  /\ smode = "all"
  /\ spc = "loop"
  /\ snext <= Len(squeue)
  /\ \E o \in applySuggestion(swork, squeue[snext]) :
       /\ swork' = o.content
       /\ slog' = Append(slog, Attempt(o.result, swork, o.content))
       /\ spc' = IF o.result = "panic" THEN "crashed" ELSE "loop"
  /\ snext' = snext + 1
  /\ UNCHANGED <<smode, squeue, sindex, spatch, sbefore, sret>>
  /\ UNCHANGED <<avars, mvars, hvars>>

\* the end of the loop of ApplyAll or ApplyInteractive
SessionReturn ==
  /\ spc = "loop"
  /\ snext > Len(squeue)
  /\ spc' = "end"
  /\ UNCHANGED <<smode, squeue, snext, swork, sindex, slog, spatch, sbefore, sret>>
  /\ UNCHANGED <<avars, mvars, hvars>>

\* one iteration of ApplyInteractive's loop: the answer cannot be read, or it
\* is quit, yes, skip, or ai-apply; applyWithAI has no provider or an error of
\* the provider, or shows a patch that the user declines, applies or edits
ApplyInteractiveIteration ==
  /\ smode = "interactive"
  /\ spc = "loop"
  /\ snext <= Len(squeue)
  /\ \/ /\ spc' = "end"
        /\ UNCHANGED <<snext, swork, slog, spatch>>
     \/ /\ \E o \in applySuggestion(swork, squeue[snext]) :
             /\ swork' = o.content
             /\ slog' = Append(slog, Attempt(o.result, swork, o.content))
             /\ spc' = IF o.result = "panic" THEN "crashed" ELSE "loop"
        /\ snext' = snext + 1
        /\ UNCHANGED spatch
     \/ /\ slog' = Append(slog, Attempt("skipped", swork, swork))
        /\ snext' = snext + 1
        /\ UNCHANGED <<swork, spc, spatch>>
     \/ /\ \E patch \in AIPatches : \E o \in GitApply(swork, patch) :
             /\ swork' = o.content
             /\ slog' = Append(slog, Attempt(o.result, swork, o.content))
        /\ snext' = snext + 1
        /\ UNCHANGED <<spc, spatch>>
     \/ /\ spatch' \in AIPatches
        /\ spc' = "edit"
        /\ UNCHANGED <<snext, swork, slog>>
  /\ UNCHANGED <<smode, squeue, sindex, sbefore, sret>>
  /\ UNCHANGED <<avars, mvars, hvars>>

\* applyPatchAndEditFile: git apply of the patch
ApplyForEdit ==
  /\ spc = "edit"
  /\ sbefore' = swork
  /\ \E o \in GitApply(swork, spatch) :
       /\ swork' = o.content
       /\ IF o.result = "applied"
            THEN spc' = "editor" /\ sret' = "none"
            ELSE spc' = "returned" /\ sret' = "failed to apply patch"
  /\ UNCHANGED <<smode, squeue, snext, sindex, slog, spatch>>
  /\ UNCHANGED <<avars, mvars, hvars>>

\* applyPatchAndEditFile: the editor runs on the file; if it exits with an
\* error the file is checked out and the error of git checkout is dropped
EditorRun ==
  /\ spc = "editor"
  /\ \E edited \in {swork, EditedContent} :
       \/ /\ swork' = edited
          /\ spc' = "confirm"
          /\ sret' = sret
       \/ /\ swork' \in GitCheckout(edited, sindex)
          /\ spc' = "returned"
          /\ sret' = "editor failed"
  /\ UNCHANGED <<smode, squeue, snext, sindex, slog, spatch, sbefore>>
  /\ UNCHANGED <<avars, mvars, hvars>>

\* applyPatchAndEditFile: "Keep these changes? [y/n]"
ConfirmKeep ==
  /\ spc = "confirm"
  /\ \/ /\ swork' \in GitCheckout(swork, sindex)
        /\ sret' = "failed to read input"
     \/ /\ swork' = swork
        /\ sret' = "kept"
     \/ /\ swork' = sindex
        /\ sret' = "changes discarded by user"
     \/ /\ swork' = swork
        /\ sret' = "failed to revert changes"
  /\ spc' = "returned"
  /\ UNCHANGED <<smode, squeue, snext, sindex, slog, spatch, sbefore>>
  /\ UNCHANGED <<avars, mvars, hvars>>

\* applyWithAI after applyPatchAndEditFile: done if the changes were kept,
\* else "Try applying without editing? [y/n]" and git apply on yes
AfterEdit ==
  /\ spc = "returned"
  /\ IF sret = "kept"
       THEN /\ slog' = Append(slog, Attempt("applied", sbefore, swork))
            /\ swork' = swork
       ELSE \/ /\ slog' = Append(slog, Attempt("error", sbefore, swork))
               /\ swork' = swork
            \/ \E o \in GitApply(swork, spatch) :
                 /\ swork' = o.content
                 /\ slog' = Append(slog, Attempt(o.result, sbefore, o.content))
  /\ snext' = snext + 1
  /\ spc' = "loop"
  /\ spatch' = <<>>
  /\ sbefore' = <<>>
  /\ sret' = "none"
  /\ UNCHANGED <<smode, squeue, sindex>>
  /\ UNCHANGED <<avars, mvars, hvars>>

NextApply ==
  \/ ApplyAllIteration
  \/ ApplyInteractiveIteration
  \/ SessionReturn
  \/ ApplyForEdit
  \/ EditorRun
  \/ ConfirmKeep
  \/ AfterEdit

SpecApply == InitApply /\ [][NextApply]_vars

(***************************************************************************)
(* Properties of createPatch.                                              *)
(***************************************************************************)
\* the 0-based offsets of file at which lines occur contiguously
Occurrences(file, lines) ==
  {i \in 0..(Len(file) - Len(lines)) :
     \A j \in 1..Len(lines) : file[i + j] = lines[j]}

NotFound == "could not find the code to replace in current file"

\* C1: createPatch ends with a patch or with an error value; it ends with a
\* patch only if the file's lines at [target, target + len(addedLines)) equal
\* the added lines, wherever the candidate lies relative to the end of the
\* file; with any other outcome no patch text is produced.
C1_PatchOnlyIfVerified ==
  pc = "done" =>
    /\ out.kind \in {"patch", "error"}
    /\ out.kind = "patch" =>
         /\ targetLine >= 0
         /\ targetLine + Len(addedLines) <= Len(fileLines)
         /\ \A j \in 1..Len(addedLines) : fileLines[targetLine + j] = addedLines[j]
    /\ out.kind # "patch" => out.patch = <<>>

\* C2: when the hunk's added lines occur contiguously at exactly one offset k
\* of the current file, createPatch locates target k and returns no error,
\* also when the header parses and its new line number is stale.
C2_LocatesUniqueOccurrence ==
  (/\ pc = "done"
   /\ disk.exists
   /\ Len(addedLines) > 0
   /\ Cardinality(Occurrences(fileLines, addedLines)) = 1)
  => /\ out.kind = "patch"
     /\ targetLine \in Occurrences(fileLines, addedLines)

\* the current file holds, at its new line number, every Context and Add line
\* of the parsed hunk
NoDrift(file, hunk) ==
  \A i \in 1..Len(hunk.Lines) :
    hunk.Lines[i].Type \in {"Context", "Add"} =>
      /\ hunk.Lines[i].NewLineNumber \in 1..Len(file)
      /\ file[hunk.Lines[i].NewLineNumber] = hunk.Lines[i].Text

FirstAdd(hunk) ==
  hunk.Lines[CHOOSE i \in 1..Len(hunk.Lines) :
               /\ hunk.Lines[i].Type = "Add"
               /\ \A k \in 1..(i - 1) : hunk.Lines[k].Type # "Add"]

\* C3: when the current file is the new-side file the hunk describes,
\* createPatch succeeds through Strategy 1 with the 0-based index of the first
\* Add line as target, for every parseable hunk with an added line, whether
\* or not its added lines are contiguous in the hunk.
C3_NoDriftSucceeds ==
  LET p == ParseDiffHunk(comment.DiffHunk) IN
  (/\ pc = "done"
   /\ disk.exists
   /\ Len(addedLines) > 0
   /\ p.ok
   /\ NoDrift(fileLines, p.hunk))
  => /\ out.kind = "patch"
     /\ strategy = 1
     /\ targetLine = GetZeroBased(FirstAdd(p.hunk).NewLineNumber)

\* C8: a failed verification reports line target + j + 1, j being the
\* smallest relative index at which the file differs from the added lines,
\* and the diagnostic marks that line with its expected and its actual text.
C8_MismatchLine ==
  out.err = "content mismatch" =>
    \E j \in 0..(Len(addedLines) - 1) :
      /\ \A i \in 0..(j - 1) : fileLines[targetLine + i + 1] = addedLines[i + 1]
      /\ fileLines[targetLine + j + 1] # addedLines[j + 1]
      /\ out.mismatchLine = targetLine + j + 1
      /\ out.diag.mismatchLine = targetLine + j + 1
      /\ out.diag.expected[j + 1] =
           [marker |-> "!", line |-> targetLine + j + 1, text |-> addedLines[j + 1]]
      /\ out.diag.actual[j + 1] =
           [marker |-> "!", line |-> targetLine + j + 1,
            text |-> fileLines[targetLine + j + 1]]
      /\ \A i \in 1..j : /\ out.diag.expected[i].marker = " "
                         /\ out.diag.actual[i].marker = " "

\* a verification that failed after its first line
C8_Witness ==
  /\ pc = "done"
  /\ out.err = "content mismatch"
  /\ out.mismatchLine > targetLine + 1

\* C9: once the content search has run, the target is the smallest offset at
\* which the file's lines equal the added lines; when there is none (also
\* when the added lines outnumber the file's) createPatch has failed with the
\* not-found error carrying the first expected line.
C9_FirstContentMatch ==
  searched =>
    LET offs == Occurrences(fileLines, addedLines) IN
    IF offs = {}
      THEN /\ pc = "done"
           /\ out.kind = "error"
           /\ out.err = NotFound
           /\ out.startingWith = addedLines[1]
           /\ out.lookingFor = Len(addedLines)
           /\ out.patch = <<>>
      ELSE /\ strategy = 2
           /\ targetLine \in offs
           /\ \A i \in offs : targetLine <= i
           /\ out.err # NotFound

\* the search took the first of several matching offsets
C9_Witness ==
  /\ searched
  /\ strategy = 2
  /\ \E i \in Occurrences(fileLines, addedLines) : i > targetLine

\* the search failed on added lines that outnumber the file's lines
C9_WitnessTooLong ==
  /\ searched
  /\ out.err = NotFound
  /\ Len(addedLines) > Len(fileLines)

\* C10: the content search runs only when ParseDiffHunk rejects the hunk
\* text; when the hunk parses (and has a '+' line) the candidate is Strategy
\* 1's and no search is made, even if the file does not match there.
C10_SearchOnlyWithoutCandidate ==
  LET parses == ParseDiffHunk(comment.DiffHunk).ok IN
  /\ searched => ~parses
  /\ (pc \in {"verify", "synthesize", "done"} /\ Len(addedLines) > 0 /\ parses)
       => strategy = 1 /\ ~searched
  /\ (pc \in {"verify", "synthesize", "done"} /\ Len(addedLines) > 0 /\ ~parses)
       => searched

\* Strategy 1's candidate mismatched, the added lines occur elsewhere in the
\* file, and no search was made
C10_Witness ==
  /\ pc = "done"
  /\ ParseDiffHunk(comment.DiffHunk).ok
  /\ out.err = "content mismatch"
  /\ ~searched
  /\ Occurrences(fileLines, addedLines) # {}

NoAddedLines == "no added lines found in diff hunk"

\* some line after the first of the hunk text starts with '+'
HasPlusLine(text) ==
  LET ls == SplitLines(text)
  IN \E i \in 2..Len(ls) : Len(ls[i]) > 0 /\ ls[i][1] = "+"

\* C11: once the file is read, createPatch fails with the 'no added lines'
\* error and produces no patch whenever (and only when) the hunk text has no
\* body line starting with '+' (pure deletion, context only, empty text); no
\* target has been looked for by then.
C11_NoAddedLinesError ==
  (pc \notin {"read", "extract"} /\ out.err # "failed to read file")
    => IF HasPlusLine(comment.DiffHunk)
         THEN out.err # NoAddedLines
         ELSE /\ pc = "done"
              /\ out.kind = "error"
              /\ out.err = NoAddedLines
              /\ out.patch = <<>>
              /\ targetLine = -1
              /\ strategy = 0
              /\ ~searched
              /\ verified = "no"

\* a hunk that parses and only deletes ended with the 'no added lines' error
C11_Witness ==
  /\ pc = "done"
  /\ out.err = NoAddedLines
  /\ ParseDiffHunk(comment.DiffHunk).ok
  /\ GetRemovedLines(comment.DiffHunk) # <<>>

\* the lines of a synthesized patch: three file header lines, the hunk header,
\* the body, and the empty piece after the last "\n"
PatchLines == SplitLines(out.patch)

\* the header '@@ -s,oc +s,nc @@' as text
HeaderText(s, oc, nc) ==
  <<"@", "@", " ", "-">> \o Itoa(s) \o <<",">> \o Itoa(oc) \o <<" ", "+">>
    \o Itoa(s) \o <<",">> \o Itoa(nc) \o <<" ", "@", "@">>

WindowStart == Max(0, targetLine - 3)

WindowEnd == Min(Len(fileLines), targetLine + Len(addedLines) + 3)

ReplacementLines == SplitLines(TrimSuffixNL(comment.SuggestedCode))

\* C12: the synthesized hunk header is '@@ -s,oc +s,nc @@' with
\* s = max(0, target - 3) + 1, oc = min(len(fileLines), target + removeCount + 3)
\* - max(0, target - 3) and nc = oc - removeCount + the number of replacement
\* lines, removeCount being the number of added lines of the review hunk.
C12_SynthesizedHeader ==
  out.kind = "patch" =>
    LET oc == WindowEnd - WindowStart
        nc == oc - Len(addedLines) + Len(ReplacementLines)
        h == MatchHeader(PatchLines[4])
    IN /\ PatchLines[4] = HeaderText(WindowStart + 1, oc, nc)
       /\ h = [ok |-> TRUE, oldStart |-> WindowStart + 1, oldLines |-> oc,
               newStart |-> WindowStart + 1, newLines |-> nc]

\* a patch whose window starts after the first line of the file and ends
\* before its last line, with more replacement lines than removed lines
C12_Witness ==
  /\ out.kind = "patch"
  /\ WindowStart > 0
  /\ WindowEnd < Len(fileLines)
  /\ Len(ReplacementLines) > Len(addedLines)

\* a patch whose window is cut at both ends of the file
C12_WitnessClamped ==
  /\ out.kind = "patch"
  /\ targetLine > 0
  /\ targetLine - 3 < 0
  /\ targetLine + Len(addedLines) < Len(fileLines)
  /\ targetLine + Len(addedLines) + 3 > Len(fileLines)

\* every line of ls with mark in front
Marked(mark, ls) == [i \in 1..Len(ls) |-> <<mark>> \o ls[i]]

\* C13: the body of the synthesized hunk is the file lines of [window start,
\* target) prefixed ' ', those of [target, target + removeCount) prefixed
\* '-', every replacement line prefixed '+', and the file lines of [target +
\* removeCount, window end) prefixed ' ', in this order; its ' ' and '-'
\* lines number the header's old count, its ' ' and '+' lines the new count.
C13_SynthesizedBody ==
  out.kind = "patch" =>
    LET removeCount == Len(addedLines)
        body == SubSeq(PatchLines, 5, Len(PatchLines) - 1)
        h == MatchHeader(PatchLines[4])
        marks(M) == Cardinality({i \in 1..Len(body) : body[i][1] \in M})
    IN /\ PatchLines[Len(PatchLines)] = <<>>
       /\ body = Marked(" ", SubSeq(fileLines, WindowStart + 1, targetLine))
                   \o Marked("-", SubSeq(fileLines, targetLine + 1,
                                         targetLine + removeCount))
                   \o Marked("+", ReplacementLines)
                   \o Marked(" ", SubSeq(fileLines, targetLine + removeCount + 1,
                                         WindowEnd))
       /\ marks({" ", "-"}) = h.oldLines
       /\ marks({" ", "+"}) = h.newLines

\* a patch with context before and after the removed lines and several
\* replacement lines
C13_Witness ==
  /\ out.kind = "patch"
  /\ WindowStart > 0
  /\ WindowStart < targetLine
  /\ targetLine + Len(addedLines) < WindowEnd
  /\ Len(ReplacementLines) > 1

\* the file's text ends with a newline
EndsWithNewline(content) == Len(content) > 0 /\ content[Len(content)] = NL

\* the number of lines of a text that ends with a newline
RealLines(content) == Len(SplitLines(content)) - 1

\* C25: for a current file whose text ends with a newline and has n real
\* lines, the synthesized hunk satisfies oldStart + oldCount - 1 <= n: the
\* empty element after the final newline is never a context or removed line
C25_NoLineAfterLast ==
  (out.kind = "patch" /\ EndsWithNewline(disk.content)) =>
    /\ MatchHeader(PatchLines[4]).oldStart + MatchHeader(PatchLines[4]).oldLines - 1
         <= RealLines(disk.content)
    /\ WindowEnd <= RealLines(disk.content)

\* the target is the last real line of a file that ends with a newline, the
\* added line is there, and the hunk counts one old line more than the file has
C25_LineAfterLastEmitted ==
  /\ out.kind = "patch" /\ EndsWithNewline(disk.content)
  /\ verified = "passed"
  /\ targetLine + Len(addedLines) = RealLines(disk.content)
  /\ MatchHeader(PatchLines[4]).oldStart + MatchHeader(PatchLines[4]).oldLines - 1
       = RealLines(disk.content) + 1
  /\ PatchLines[Len(PatchLines) - 1] = <<" ">>

\* the file with the suggestion in place of the lines it replaces
ReplacedFile ==
  JoinLines(SubSeq(fileLines, 1, targetLine)
              \o SuggestionLines(comment.SuggestedCode)
              \o SubSeq(fileLines, targetLine + Len(addedLines) + 1, Len(fileLines)))

\* C26: the patch createPatch returns, applied to the file's lines by
\* GetModifiedContentFromDiffHunk, gives the lines before the target, the
\* replacement lines, and the lines after the replaced span, in this order
C26_PatchReplacesSpan ==
  pc = "applied" => (applied.ok /\ applied.content = ReplacedFile)

\* a patch whose context window starts and ends inside the file was applied
C26_Witness ==
  /\ pc = "applied"
  /\ applied.ok
  /\ targetLine > contextSize
  /\ targetLine + Len(addedLines) + contextSize < Len(fileLines)
  /\ applied.content = ReplacedFile
  /\ applied.content # disk.content

(***************************************************************************)
(* Properties of the position mapper.                                      *)
(***************************************************************************)
\* every body line begins with one of the markers ParseDiffHunk knows
KnownMarkers(text) ==
  LET ls == SplitLines(text)
  IN \A i \in 1..Len(ls) : Len(ls[i]) = 0 \/ ls[i][1] \in {"@", " ", "+", "-", "\\"}

TypeCount(hunk, types) ==
  Cardinality({i \in 1..Len(hunk.Lines) : hunk.Lines[i].Type \in types})

\* the header's counts are not smaller than the body's
HeaderCovers(hunk) ==
  /\ hunk.OldLines >= TypeCount(hunk, {"Context", "Delete"})
  /\ hunk.NewLines >= TypeCount(hunk, {"Context", "Add"})

OldInOrder(hunks) ==
  \A i \in 1..(Len(hunks) - 1) :
    hunks[i].OldStart + hunks[i].OldLines <= hunks[i + 1].OldStart

NewInOrder(hunks) ==
  \A i \in 1..(Len(hunks) - 1) :
    hunks[i].NewStart + hunks[i].NewLines <= hunks[i + 1].NewStart

\* the patch of the data model: known markers, headers that cover their
\* bodies, hunks in ascending order without overlap on both sides
WellFormed(text, hunks) ==
  /\ KnownMarkers(text)
  /\ \A i \in 1..Len(hunks) : HeaderCovers(hunks[i])
  /\ OldInOrder(hunks)
  /\ NewInOrder(hunks)

\* the parsed lines of the given types, over all hunks
LinesOfType(hunks, types) ==
  UNION {{hunks[i].Lines[k] : k \in {m \in 1..Len(hunks[i].Lines) :
                                       hunks[i].Lines[m].Type \in types}} :
         i \in 1..Len(hunks)}

OldNumbers(hunks, types) == {l.OldLineNumber : l \in LinesOfType(hunks, types)}

NewNumbers(hunks, types) == {l.NewLineNumber : l \in LinesOfType(hunks, types)}

MappedOld == mpc \in {"old2new", "backToOld"}

MappedNew == mpc \in {"new2old", "backToNew"}

\* C4 as stated: for every patch that parses and every old number L of a
\* Context line, MapOldPositionToNew(patch, L) is a line n # -1 with no error
\* and MapNewPositionToOld(patch, n) is L.
C4_RoundTripEveryPatch ==
  LET p == mparsed IN
  (MappedOld /\ p.ok /\ marg \in OldNumbers(p.hunks, {"Context"}))
    => /\ mres.ok /\ mres.val # -1
       /\ mpc = "backToOld" => (mback.ok /\ mback.val = marg)

\* C4 amended: the same for every patch whose body lines carry known markers,
\* whose header counts are not smaller than the body's and whose hunks are
\* in ascending order without overlap on both sides.
C4_RoundTrip ==
  LET p == mparsed IN
  (/\ MappedOld
   /\ p.ok
   /\ WellFormed(mpatch, p.hunks)
   /\ marg \in OldNumbers(p.hunks, {"Context"}))
    => /\ mres.ok /\ mres.val # -1
       /\ mpc = "backToOld" => (mback.ok /\ mback.val = marg)

\* a Context line of the second of two hunks went to a shifted new line and back
C4_Witness ==
  LET p == mparsed IN
  /\ mpc = "backToOld"
  /\ p.ok
  /\ Len(p.hunks) = 2
  /\ WellFormed(mpatch, p.hunks)
  /\ marg \in OldNumbers(<<p.hunks[2]>>, {"Context"})
  /\ mres.val # marg
  /\ mback.val = marg

\* C5: for a single-hunk patch with header counts O and N and an old line
\* L >= old-start + O, MapOldPositionToNew(patch, L) is L + (N - O), no error.
C5_OffsetAfterSingleHunk ==
  LET p == mparsed IN
  (/\ MappedOld
   /\ p.ok
   /\ Len(p.hunks) = 1
   /\ marg >= p.hunks[1].OldStart + p.hunks[1].OldLines)
    => /\ mres.ok
       /\ mres.val = marg + (p.hunks[1].NewLines - p.hunks[1].OldLines)

\* a line after a single hunk that changes the line count
C5_Witness ==
  LET p == mparsed IN
  /\ mpc = "old2new"
  /\ p.ok
  /\ Len(p.hunks) = 1
  /\ marg >= p.hunks[1].OldStart + p.hunks[1].OldLines
  /\ p.hunks[1].NewLines # p.hunks[1].OldLines
  /\ mres.val = marg + (p.hunks[1].NewLines - p.hunks[1].OldLines)

\* the sum of NewLines - OldLines over the hunks i..Len(hunks) that end at or
\* before line on the given side
RECURSIVE DeltaBefore(_, _, _, _)
DeltaBefore(hunks, i, line, side) ==
  IF i > Len(hunks) THEN 0
  ELSE
    LET end == IF side = "old" THEN hunks[i].OldStart + hunks[i].OldLines
                               ELSE hunks[i].NewStart + hunks[i].NewLines
    IN (IF end <= line THEN hunks[i].NewLines - hunks[i].OldLines ELSE 0)
         + DeltaBefore(hunks, i + 1, line, side)

OutsideOld(hunks, line) ==
  \A i \in 1..Len(hunks) :
    line < hunks[i].OldStart \/ line >= hunks[i].OldStart + hunks[i].OldLines

OutsideNew(hunks, line) ==
  \A i \in 1..Len(hunks) :
    line < hunks[i].NewStart \/ line >= hunks[i].NewStart + hunks[i].NewLines

\* C6: an old line before the first hunk's old start maps to itself; with the
\* hunks in ascending order without overlap, an old line outside every hunk
\* maps to itself plus the sum of (NewLines - OldLines) of the hunks it comes
\* after, and a new line outside every hunk to itself minus that sum.
C6_OutsideHunks ==
  LET p == mparsed IN
  p.ok =>
    /\ (MappedOld /\ marg < p.hunks[1].OldStart) => (mres.ok /\ mres.val = marg)
    /\ (MappedOld /\ OldInOrder(p.hunks) /\ OutsideOld(p.hunks, marg))
         => (mres.ok /\ mres.val = marg + DeltaBefore(p.hunks, 1, marg, "old"))
    /\ (MappedNew /\ NewInOrder(p.hunks) /\ OutsideNew(p.hunks, marg))
         => (mres.ok /\ mres.val = marg - DeltaBefore(p.hunks, 1, marg, "new"))

\* an old line after two hunks that both change the line count
C6_Witness ==
  LET p == mparsed IN
  /\ mpc = "old2new"
  /\ p.ok
  /\ Len(p.hunks) = 2
  /\ OldInOrder(p.hunks)
  /\ marg >= p.hunks[2].OldStart + p.hunks[2].OldLines
  /\ p.hunks[1].NewLines # p.hunks[1].OldLines
  /\ p.hunks[2].NewLines # p.hunks[2].OldLines
  /\ mres.val = marg + (p.hunks[1].NewLines - p.hunks[1].OldLines)
                     + (p.hunks[2].NewLines - p.hunks[2].OldLines)

\* the patch of the tests' "line after deletion": @@ -10,3 +10,2 @@ with a
\* context line, a deleted line and a context line
DeletionExample ==
  HunkText(10, 3, 10, 2, <<<<" ", "a">>, <<"-", "a">>, <<" ", "a">>>>)

DeletionExampleNewToOld == MapNewPositionToOld(DeletionExample, 11)

DeletionExampleOldToNew == MapOldPositionToNew(DeletionExample, 11)

\* C7: the old number of a Delete line maps to -1 and the new number of an
\* Add line maps to -1, both without error; a Context line, also one that
\* follows such a line in its hunk, maps to its counterpart (new line 11
\* after one deletion at old line 11 maps to old line 12).
C7_DeletedAndAdded ==
  LET p == mparsed IN
  /\ (p.ok /\ WellFormed(mpatch, p.hunks)) =>
       /\ (MappedOld /\ marg \in OldNumbers(p.hunks, {"Delete"}))
            => (mres.ok /\ mres.val = -1)
       /\ (MappedNew /\ marg \in NewNumbers(p.hunks, {"Add"}))
            => (mres.ok /\ mres.val = -1)
       /\ \A l \in LinesOfType(p.hunks, {"Context"}) :
            /\ (MappedOld /\ marg = l.OldLineNumber) => mres.val = l.NewLineNumber
            /\ (MappedNew /\ marg = l.NewLineNumber) => mres.val = l.OldLineNumber
  /\ DeletionExampleNewToOld = [val |-> 12, ok |-> TRUE]
  /\ DeletionExampleOldToNew = [val |-> -1, ok |-> TRUE]

\* a new line that follows a deletion in its hunk was mapped to the old line
\* one further down
C7_Witness ==
  LET p == mparsed IN
  /\ mpc = "new2old"
  /\ p.ok
  /\ WellFormed(mpatch, p.hunks)
  /\ \E i \in 1..Len(p.hunks) : \E d, c \in 1..Len(p.hunks[i].Lines) :
       /\ d < c
       /\ p.hunks[i].Lines[d].Type = "Delete"
       /\ p.hunks[i].Lines[c].Type = "Context"
       /\ p.hunks[i].Lines[c].NewLineNumber = marg
       /\ mres.val = p.hunks[i].Lines[c].OldLineNumber
       /\ mres.val > marg

\* C21: CalculateCommentPosition returns no error; IsOutdated is true exactly
\* when the side is RIGHT and MapNewPositionToOld(hunk, line) succeeds with a
\* value that is neither -1 nor originalLine, or the side is LEFT and
\* MapOldPositionToNew(hunk, originalLine) succeeds with -1; Line, OriginalLine
\* and DiffSide are the inputs (mparsed is what ParsePatch returned to the
\* mapping function)
C21_OutdatedExactly ==
  mpc = "position" =>
    /\ ~cpos.err
    /\ cpos.pos.IsOutdated <=>
         \/ /\ cside = "RIGHT"
            /\ MapNewParsed(mparsed, cline).ok
            /\ MapNewParsed(mparsed, cline).val \notin {-1, corig}
         \/ /\ cside = "LEFT"
            /\ MapOldParsed(mparsed, corig).ok
            /\ MapOldParsed(mparsed, corig).val = -1
    /\ cpos.pos.Line = cline
    /\ cpos.pos.OriginalLine = corig
    /\ cpos.pos.DiffSide = cside

\* an added line on the RIGHT side whose originalLine is another line: not
\* outdated
C21_Witness ==
  /\ mpc = "position" /\ cside = "RIGHT"
  /\ MapNewParsed(mparsed, cline).ok
  /\ MapNewParsed(mparsed, cline).val = -1
  /\ corig # cline
  /\ ~cpos.pos.IsOutdated

\* RIGHT, mapped to a line that is not originalLine: outdated
C21_WitnessRight ==
  /\ mpc = "position" /\ cside = "RIGHT"
  /\ cpos.pos.IsOutdated
  /\ MapNewParsed(mparsed, cline).val # cline

\* LEFT, a deleted line: outdated
C21_WitnessLeft ==
  mpc = "position" /\ cside = "LEFT" /\ cpos.pos.IsOutdated

\* a hunk text that does not parse: not outdated, no error
C21_WitnessUnparsed ==
  /\ mpc = "position" /\ cside = "RIGHT" /\ mpatch # <<>>
  /\ ~MapNewParsed(mparsed, cline).ok
  /\ ~cpos.pos.IsOutdated /\ ~cpos.err

(***************************************************************************)
(* Properties of the parser.                                               *)
(***************************************************************************)
\* the lines of a hunk text after its first line
BodyOf(text) == Tail(SplitLines(text))

\* how many body lines of the text begin with one of the marks
MarkCount(text, marks) ==
  Cardinality({i \in 1..Len(BodyOf(text)) :
                 Len(BodyOf(text)[i]) > 0 /\ BodyOf(text)[i][1] \in marks})

\* every non-empty body line begins with ' ', '+', '-' or a backslash
OnlyMarkers(text) ==
  \A i \in 1..Len(BodyOf(text)) :
    Len(BodyOf(text)[i]) = 0 \/ BodyOf(text)[i][1] \in {" ", "+", "-", "\\"}

\* the cursors after the parsed lines from index k on: a Context line advances
\* both, an Add line the new one, a Delete line the old one, a Control line none
RECURSIVE Replay(_, _, _, _)
Replay(lines, k, old, new) ==
  IF k > Len(lines) THEN <<old, new>>
  ELSE IF lines[k].Type = "Context" THEN Replay(lines, k + 1, old + 1, new + 1)
  ELSE IF lines[k].Type = "Add" THEN Replay(lines, k + 1, old, new + 1)
  ELSE IF lines[k].Type = "Delete" THEN Replay(lines, k + 1, old + 1, new)
  ELSE Replay(lines, k + 1, old, new)

ReplayEndsAtHeader(hunk) ==
  Replay(hunk.Lines, 1, hunk.OldStart, hunk.NewStart)
    = <<hunk.OldStart + hunk.OldLines, hunk.NewStart + hunk.NewLines>>

\* the first line of a text
FirstLine(text) == SplitLines(text)[1]

\* the numbers a header of the inputs can hold; -1 stands for a count left out
HeaderStarts == 0..(MaxStart + 1)

HeaderCounts == -1..(MaxPatchLines + 1)

\* one side of a header as it is written: the start, and ",count" if given
SideText(start, count) ==
  Itoa(start) \o (IF count = -1 THEN <<>> ELSE <<",">> \o Itoa(count))

\* "@@ -O[,L] +O2[,L2] @@"
HeaderLine(o, l, o2, l2) ==
  <<"@", "@", " ", "-">> \o SideText(o, l) \o <<" ", "+">> \o SideText(o2, l2)
    \o <<" ", "@", "@">>

IsPrefix(pre, line) ==
  Len(pre) <= Len(line) /\ SubSeq(line, 1, Len(pre)) = pre

\* the old sides <<O, L>> with which the line begins like a header
OldSidesOf(line) ==
  {a \in HeaderStarts \X HeaderCounts :
     IsPrefix(<<"@", "@", " ", "-">> \o SideText(a[1], a[2]) \o <<" ", "+">>, line)}

\* the new sides <<O2, L2>> that complete the old side to a header of the line
NewSidesOf(line, a) ==
  {b \in HeaderStarts \X HeaderCounts :
     IsPrefix(HeaderLine(a[1], a[2], b[1], b[2]), line)}

\* the header numbers with which the line begins like a header
HeadersOf(line) ==
  UNION {{[o |-> a[1], l |-> a[2], o2 |-> b[1], l2 |-> b[2]] : b \in NewSidesOf(line, a)} :
         a \in OldSidesOf(line)}

\* the counts written in the header, 1 for a count left out, are the numbers
\* of old-side and new-side body lines
CountsMatchBody(text) ==
  /\ OnlyMarkers(text)
  /\ \E h \in HeadersOf(FirstLine(text)) :
       /\ (IF h.l = -1 THEN 1 ELSE h.l) = MarkCount(text, {" ", "-"})
       /\ (IF h.l2 = -1 THEN 1 ELSE h.l2) = MarkCount(text, {" ", "+"})

\* C14 as stated: for every hunk text ParseDiffHunk accepts, replaying the
\* parsed lines from (OldStart, NewStart) ends at (OldStart + OldLines,
\* NewStart + NewLines)
C14_ReplayEveryHunk ==
  (hpc = "hunk" /\ hhunk.ok) => ReplayEndsAtHeader(hhunk.hunk)

\* C14: for every hunk text ParseDiffHunk accepts whose header counts are the
\* numbers of its old-side and new-side body lines and whose body lines all
\* begin with a marker, replaying the parsed lines from (OldStart, NewStart)
\* ends at (OldStart + OldLines, NewStart + NewLines)
C14_Replay ==
  (hpc = "hunk" /\ hhunk.ok /\ CountsMatchBody(htext))
    => ReplayEndsAtHeader(hhunk.hunk)

\* a three-line hunk with a control line and more lines on one side
C14_Witness ==
  /\ hpc = "hunk" /\ hhunk.ok /\ CountsMatchBody(htext)
  /\ Len(hhunk.hunk.Lines) = 3
  /\ \E k \in 1..3 : hhunk.hunk.Lines[k].Type = "Control"
  /\ hhunk.hunk.OldLines # hhunk.hunk.NewLines
  /\ ReplayEndsAtHeader(hhunk.hunk)

\* the non-empty body lines of a hunk text
NonEmptyBody(text) == SelectSeq(BodyOf(text), LAMBDA l : Len(l) > 0)

\* how many of the lines before index k begin with one of the marks
MarkedBefore(ls, k, marks) == Cardinality({j \in 1..(k - 1) : ls[j][1] \in marks})

\* what the raw line ls[k] becomes in a hunk with the given starts
Classified(ls, k, oldStart, newStart, line) ==
  LET old == oldStart + MarkedBefore(ls, k, {" ", "-"})
      new == newStart + MarkedBefore(ls, k, {" ", "+"})
  IN CASE ls[k][1] = " " ->
            /\ line.Type = "Context"
            /\ line.OldLineNumber = old /\ line.NewLineNumber = new
            /\ line.Text = Tail(ls[k])
       [] ls[k][1] = "+" ->
            /\ line.Type = "Add"
            /\ line.OldLineNumber = -1 /\ line.NewLineNumber = new
            /\ line.Text = Tail(ls[k])
       [] ls[k][1] = "-" ->
            /\ line.Type = "Delete"
            /\ line.OldLineNumber = old /\ line.NewLineNumber = -1
            /\ line.Text = Tail(ls[k])
       [] ls[k][1] = "\\" ->
            /\ line.Type = "Control"
            /\ line.OldLineNumber = -1 /\ line.NewLineNumber = -1
            /\ line.Text = ls[k]
       [] OTHER -> TRUE

C15_WitnessEmptyLine ==
  /\ hpc = "hunk" /\ hhunk.ok
  /\ Len(BodyOf(htext)) = 3 /\ Len(BodyOf(htext)[2]) = 0
  /\ Len(hhunk.hunk.Lines) = 2

\* C16: ParseDiffHunk succeeds exactly when the first line of the text begins
\* with "@@ -O[,L] +O2[,L2] @@" (whatever follows the second "@@"); the hunk
\* then holds O, L, O2 and L2, a count left out being 1; for every other first
\* line, the empty text included, it returns an error and no hunk
C16_HeaderAccepted ==
  hpc = "hunk" =>
    /\ hhunk.ok <=> HeadersOf(FirstLine(htext)) # {}
    /\ hhunk.ok =>
         \A h \in HeadersOf(FirstLine(htext)) :
           /\ hhunk.hunk.OldStart = h.o
           /\ hhunk.hunk.OldLines = (IF h.l = -1 THEN 1 ELSE h.l)
           /\ hhunk.hunk.NewStart = h.o2
           /\ hhunk.hunk.NewLines = (IF h.l2 = -1 THEN 1 ELSE h.l2)
    /\ ~hhunk.ok => hhunk.hunk = NilHunk

\* a header with text after its second "@@" is accepted
C16_Witness ==
  /\ hpc = "hunk" /\ hhunk.ok
  /\ \E h \in HeadersOf(FirstLine(htext)) :
       Len(FirstLine(htext)) > Len(HeaderLine(h.o, h.l, h.o2, h.l2))

\* a header without counts is accepted with both counts 1 although the body
\* has two lines
C16_WitnessOmitted ==
  /\ hpc = "hunk" /\ hhunk.ok
  /\ \E h \in HeadersOf(FirstLine(htext)) : h.l = -1 /\ h.l2 = -1
  /\ hhunk.hunk.OldLines = 1 /\ hhunk.hunk.NewLines = 1
  /\ Len(hhunk.hunk.Lines) = 2

\* the empty text is rejected
C16_WitnessEmpty ==
  hpc = "hunk" /\ htext = <<>> /\ ~hhunk.ok

\* a header whose closing "@@" lacks an "@" is rejected
C16_WitnessRejected ==
  /\ hpc = "hunk" /\ ~hhunk.ok
  /\ IsPrefix(<<"@", "@", " ", "-", "1", " ", "+", "1", " ", "@">>, FirstLine(htext))

\* ParsePatch has returned
PatchParsed == hpc = "patch"

\* a line that begins with "@@", then one or more characters other than "@",
\* then "@@"
IsHeaderLine(l) ==
  /\ Len(l) >= 5 /\ l[1] = "@" /\ l[2] = "@"
  /\ \E q \in 4..(Len(l) - 1) :
       /\ l[q] = "@" /\ l[q + 1] = "@"
       /\ \A j \in 3..(q - 1) : l[j] # "@"

\* the indices of the header lines among the lines
HeaderIndices(ls) == {i \in 1..Len(ls) : IsHeaderLine(ls[i])}

\* the index of the n-th header line
NthHeader(ls, n) ==
  CHOOSE i \in HeaderIndices(ls) :
    Cardinality({j \in HeaderIndices(ls) : j <= i}) = n

\* the text from the n-th header line up to the next header line or the end
Chunk(ls, n) ==
  JoinLines(SubSeq(ls, NthHeader(ls, n),
                   IF n < Cardinality(HeaderIndices(ls))
                     THEN NthHeader(ls, n + 1) - 1
                     ELSE Len(ls)))

\* the numbers of the chunks ParseDiffHunk rejects
FailingChunks(ls) ==
  {n \in 1..Cardinality(HeaderIndices(ls)) : ~ParseDiffHunk(Chunk(ls, n)).ok}

\* what C17 says ParsePatch returns for the lines of a text
ExpectedPatch(ls, r) ==
  IF HeaderIndices(ls) = {}
    THEN ~r.ok /\ r.err = "no hunks found in patch" /\ r.hunks = <<>>
  ELSE IF FailingChunks(ls) # {}
    THEN /\ ~r.ok /\ r.err = "failed to parse hunk" /\ r.hunks = <<>>
         /\ r.index + 1 \in FailingChunks(ls)
         /\ \A n \in FailingChunks(ls) : r.index + 1 <= n
    ELSE /\ r.ok
         /\ r.hunks = [n \in 1..Cardinality(HeaderIndices(ls)) |->
                         ParseDiffHunk(Chunk(ls, n)).hunk]

C17_WitnessAllOrNothing ==
  /\ PatchParsed /\ ~hparsed.ok
  /\ hparsed.index = 1 /\ hparsed.hunks = <<>>
  /\ ParseDiffHunk(Chunk(SplitLines(htext), 1)).ok

\* no header line at all
C17_WitnessNoHeader ==
  /\ PatchParsed /\ ~hparsed.ok
  /\ hparsed.err = "no hunks found in patch" /\ htext # <<>>

\* the parsed lines of the hunks from index h on, in order
RECURSIVE AllLines(_, _)
AllLines(hunks, h) ==
  IF h > Len(hunks) THEN <<>> ELSE hunks[h].Lines \o AllLines(hunks, h + 1)

\* the lines that are no Control lines, in order
NonControl(hunks) == SelectSeq(AllLines(hunks, 1), LAMBDA l : l.Type # "Control")

\* C18: GetDiffLineByPosition(hunks, n) returns the n-th line that is no
\* Control line, counted from 1 across all hunks in order, for every n from 1
\* to the number of such lines, and nil for every n above that number
C18_NthNonControlLine ==
  (hpc = "line" /\ hn >= 1) =>
    IF hn <= Len(NonControl(hparsed.hunks))
      THEN hline = [found |-> TRUE, line |-> NonControl(hparsed.hunks)[hn]]
      ELSE hline = NoLine

\* C18 for the hunks without a Control line
C18_WithoutControlLines ==
  (/\ hpc = "line" /\ hn >= 1
   /\ Len(NonControl(hparsed.hunks)) = Len(AllLines(hparsed.hunks, 1))) =>
    IF hn <= Len(NonControl(hparsed.hunks))
      THEN hline = [found |-> TRUE, line |-> NonControl(hparsed.hunks)[hn]]
      ELSE hline = NoLine

\* a Control line is returned for the position of the line after it
C18_ControlLineReturned ==
  /\ hpc = "line" /\ hn >= 1
  /\ hline.found /\ hline.line.Type = "Control"

\* the texts of the parsed lines of the given type, in order
TextsOfType(lines, type) ==
  [n \in 1..Len(SelectSeq(lines, LAMBDA l : l.Type = type)) |->
     SelectSeq(lines, LAMBDA l : l.Type = type)[n].Text]

\* C23: for every hunk text ParseDiffHunk accepts, GetAddedLines(text) is, in
\* order, the Text of the parsed lines of type Add and GetRemovedLines(text)
\* the Text of the parsed lines of type Delete; each is empty when the hunk has
\* no such line
C23_ExtractedAreParsed ==
  /\ (hpc = "added" /\ hhunk.ok) => hlines = TextsOfType(hhunk.hunk.Lines, "Add")
  /\ (hpc = "removed" /\ hhunk.ok) => hlines = TextsOfType(hhunk.hunk.Lines, "Delete")

\* removed lines of a hunk that has an Add line between two Delete lines
C23_Witness ==
  /\ hpc = "removed" /\ hhunk.ok
  /\ Len(hlines) = 2
  /\ Len(hhunk.hunk.Lines) = 3
  /\ hhunk.hunk.Lines[2].Type = "Add"

\* added lines of a hunk with a Control line and a Delete line
C23_WitnessAdded ==
  /\ hpc = "added" /\ hhunk.ok
  /\ Len(hlines) = 1
  /\ \E k \in 1..Len(hhunk.hunk.Lines) : hhunk.hunk.Lines[k].Type = "Control"
  /\ \E k \in 1..Len(hhunk.hunk.Lines) : hhunk.hunk.Lines[k].Type = "Delete"

\* no Add line: no added lines
C23_WitnessNone ==
  /\ hpc = "added" /\ hhunk.ok
  /\ hlines = <<>> /\ Len(hhunk.hunk.Lines) > 0

\* C24: in every parsed hunk the i-th element of Lines (0-based) has
\* PositionInHunk = i; Control lines are counted like every other parsed line,
\* and an empty line of the body makes no line and takes no index
C24_PositionIsIndex ==
  (hpc = "hunk" /\ hhunk.ok) =>
    /\ \A k \in 1..Len(hhunk.hunk.Lines) : hhunk.hunk.Lines[k].PositionInHunk = k - 1
    /\ Len(hhunk.hunk.Lines) = Len(NonEmptyBody(htext))

\* a Control line, an empty line and a line after them at index 1
C24_Witness ==
  /\ hpc = "hunk" /\ hhunk.ok
  /\ Len(BodyOf(htext)) = 3 /\ Len(BodyOf(htext)[2]) = 0
  /\ Len(hhunk.hunk.Lines) = 2
  /\ hhunk.hunk.Lines[1].Type = "Control"
  /\ hhunk.hunk.Lines[2].PositionInHunk = 1

(***************************************************************************)
(* Properties of the commenting ranges.                                    *)
(***************************************************************************)
\* the lines the intervals cover
Covered(ranges) == UNION {ranges[i][1]..ranges[i][2] : i \in 1..Len(ranges)}

\* the 1-based line numbers of one side's lines; a line with a marker
\* ParseDiffHunk does not know has no number (both its numbers are 0)
SideNumbers(hunks, isBase) ==
  IF isBase THEN {n \in OldNumbers(hunks, {"Delete", "Context"}) : n >= 1}
            ELSE {n \in NewNumbers(hunks, {"Add", "Context"}) : n >= 1}

C19_WitnessNewSide ==
  /\ hpc = "ranges" /\ hparsed.ok /\ ~hbase
  /\ Len(hranges.ranges) > 1
  /\ Covered(hranges.ranges) = NewNumbers(hparsed.hunks, {"Add", "Context"})
  /\ Covered(hranges.ranges) # OldNumbers(hparsed.hunks, {"Delete", "Context"})

\* a patch that does not parse has no ranges
C19_WitnessError ==
  hpc = "ranges" /\ ~hparsed.ok /\ ~hranges.ok /\ hranges.ranges = <<>>

\* a line a comment on the given side can be attached to
CanAnchor(line, isBase) ==
  IF isBase THEN line.Type \in {"Delete", "Context"} /\ line.OldLineNumber >= 1
            ELSE line.Type \in {"Add", "Context"} /\ line.NewLineNumber >= 1

AnchorNumber(line, isBase) ==
  IF isBase THEN line.OldLineNumber ELSE line.NewLineNumber

\* the maximal runs of lines of a hunk that can all be anchored: first and
\* last index
Runs(lines, isBase) ==
  {r \in (1..Len(lines)) \X (1..Len(lines)) :
     /\ r[1] <= r[2]
     /\ \A k \in r[1]..r[2] : CanAnchor(lines[k], isBase)
     /\ r[1] = 1 \/ ~CanAnchor(lines[r[1] - 1], isBase)
     /\ r[2] = Len(lines) \/ ~CanAnchor(lines[r[2] + 1], isBase)}

\* the n-th run in the order of the lines
NthRun(lines, isBase, n) ==
  CHOOSE r \in Runs(lines, isBase) :
    Cardinality({q \in Runs(lines, isBase) : q[1] <= r[1]}) = n

\* one interval per run: the numbers of its first and last line
RunIntervals(lines, isBase) ==
  [n \in 1..Cardinality(Runs(lines, isBase)) |->
     <<AnchorNumber(lines[NthRun(lines, isBase, n)[1]], isBase),
       AnchorNumber(lines[NthRun(lines, isBase, n)[2]], isBase)>>]

\* the intervals of the hunks from index h on, hunk after hunk
RECURSIVE IntervalsFrom(_, _, _)
IntervalsFrom(hunks, h, isBase) ==
  IF h > Len(hunks) THEN <<>>
  ELSE RunIntervals(hunks[h].Lines, isBase) \o IntervalsFrom(hunks, h + 1, isBase)

\* every interval ends before the next one starts
Ascending(ranges) ==
  \A i \in 1..(Len(ranges) - 1) : ranges[i][2] < ranges[i + 1][1]

\* the hunks are in ascending order without overlap and no body is longer
\* than its header says
HunksInOrder(hunks) ==
  /\ \A i \in 1..Len(hunks) : HeaderCovers(hunks[i])
  /\ OldInOrder(hunks)
  /\ NewInOrder(hunks)

C20_WitnessControl ==
  /\ hpc = "ranges" /\ hparsed.ok /\ ~hbase
  /\ Len(hparsed.hunks) = 1
  /\ Len(hranges.ranges) = 2
  /\ hranges.ranges[2][1] = hranges.ranges[1][2] + 1
  /\ Len(hparsed.hunks[1].Lines) = 3
  /\ hparsed.hunks[1].Lines[2].Type = "Control"

\* the second hunk follows the first directly: the interval is not continued
C20_WitnessHunkEnd ==
  /\ hpc = "ranges" /\ hparsed.ok
  /\ Len(hparsed.hunks) = 2
  /\ HunksInOrder(hparsed.hunks)
  /\ Len(hranges.ranges) = 2
  /\ hranges.ranges[2][1] = hranges.ranges[1][2] + 1

\* hunks that overlap give intervals that overlap
C20_WitnessOverlap ==
  /\ hpc = "ranges" /\ hparsed.ok
  /\ ~HunksInOrder(hparsed.hunks)
  /\ ~Ascending(hranges.ranges)

(***************************************************************************)
(* Properties of GetModifiedContentFromDiffHunk.                           *)
(***************************************************************************)
\* the old starts of the hunks ascend
AscendingStarts(hunks) ==
  \A i \in 1..(Len(hunks) - 1) : hunks[i].OldStart < hunks[i + 1].OldStart

\* every Context and Delete line is the original's line at its old number
MatchesOriginal(hunks, originalLines) ==
  \A i \in 1..Len(hunks) : \A k \in 1..Len(hunks[i].Lines) :
    hunks[i].Lines[k].Type \in {"Context", "Delete"} =>
      /\ hunks[i].Lines[k].OldLineNumber \in 1..Len(originalLines)
      /\ originalLines[hunks[i].Lines[k].OldLineNumber] = hunks[i].Lines[k].Text

\* the header's counts are the numbers of the hunk's old-side and new-side lines
CountsAreBody(hunk) ==
  /\ hunk.OldLines = TypeCount(hunk, {"Context", "Delete"})
  /\ hunk.NewLines = TypeCount(hunk, {"Context", "Add"})

\* the texts of the Context and Add lines of a hunk, in order
NewSideTexts(hunk) ==
  [n \in 1..Len(SelectSeq(hunk.Lines, LAMBDA l : l.Type \in {"Context", "Add"})) |->
     SelectSeq(hunk.Lines, LAMBDA l : l.Type \in {"Context", "Add"})[n].Text]

\* the original from line from on with the old span of each hunk from index h
\* on (OldLines lines from OldStart) replaced by the hunk's new side
RECURSIVE Replaced(_, _, _, _)
Replaced(hunks, h, originalLines, from) ==
  IF h > Len(hunks) THEN SubSeq(originalLines, from, Len(originalLines))
  ELSE SubSeq(originalLines, from, Min(hunks[h].OldStart - 1, Len(originalLines)))
         \o NewSideTexts(hunks[h])
         \o Replaced(hunks, h + 1, originalLines,
                     Max(1, hunks[h].OldStart + hunks[h].OldLines))

RECURSIVE SumDelta(_, _)
SumDelta(hunks, h) ==
  IF h > Len(hunks) THEN 0
  ELSE hunks[h].NewLines - hunks[h].OldLines + SumDelta(hunks, h + 1)

\* the result is the original with the old spans replaced, and has
\* len(original) + sum of (NewLines - OldLines) lines
IsReplaced(result, hunks, originalLines) ==
  /\ result.ok
  /\ result.content = JoinLines(Replaced(hunks, 1, originalLines, 1))
  /\ Len(Replaced(hunks, 1, originalLines, 1))
       = Len(originalLines) + SumDelta(hunks, 1)

\* C22 as stated: for a patch whose hunks are in ascending order and whose
\* Context and Delete lines equal the original's lines at their old numbers,
\* GetModifiedContentFromDiffHunk returns the original with each hunk's old
\* span replaced by the hunk's Context and Add texts, a text of
\* len(original) + sum of (NewLines - OldLines) lines
C22_ModifiedEveryPatch ==
  (/\ hpc = "modified" /\ hparsed.ok
   /\ AscendingStarts(hparsed.hunks)
   /\ MatchesOriginal(hparsed.hunks, SplitLines(horig)))
    => IsReplaced(hmod, hparsed.hunks, SplitLines(horig))

\* C22: the same for a patch whose hunks, in addition, do not overlap and
\* whose headers count the lines of their bodies
C22_Modified ==
  (/\ hpc = "modified" /\ hparsed.ok
   /\ OldInOrder(hparsed.hunks)
   /\ \A i \in 1..Len(hparsed.hunks) : CountsAreBody(hparsed.hunks[i])
   /\ MatchesOriginal(hparsed.hunks, SplitLines(horig)))
    => IsReplaced(hmod, hparsed.hunks, SplitLines(horig))

\* two hunks on the numbered original, a line deleted and a line added: the
\* result has the added text and not the deleted line
C22_Witness ==
  /\ hpc = "modified" /\ hparsed.ok /\ horig = NumberedOriginal
  /\ Len(hparsed.hunks) = 2
  /\ OldInOrder(hparsed.hunks)
  /\ \A i \in 1..2 : CountsAreBody(hparsed.hunks[i])
  /\ MatchesOriginal(hparsed.hunks, SplitLines(horig))
  /\ LinesOfType(hparsed.hunks, {"Delete"}) # {}
  /\ LinesOfType(hparsed.hunks, {"Add"}) # {}
  /\ hparsed.hunks[2].OldStart # hparsed.hunks[2].NewStart
  /\ IsReplaced(hmod, hparsed.hunks, SplitLines(horig))
  /\ hmod.content # horig

\* line n = MapOldPositionToNew(patch, L) of the modified text is line L of
\* the original, unless n is -1
LineKept(p, originalLines, modifiedLines, L) ==
  MapOldParsed(p, L).val # -1 =>
    /\ MapOldParsed(p, L).val \in 1..Len(modifiedLines)
    /\ modifiedLines[MapOldParsed(p, L).val] = originalLines[L]

LinesKept(p, originalLines, modifiedLines) ==
  \A L \in 1..Len(originalLines) : LineKept(p, originalLines, modifiedLines, L)

\* sorted, non-overlapping on both sides, header counts equal to the body's,
\* old-side lines equal to the original's
FitsOriginal(hunks, originalLines) ==
  /\ OldInOrder(hunks)
  /\ NewInOrder(hunks)
  /\ \A i \in 1..Len(hunks) : CountsAreBody(hunks[i])
  /\ MatchesOriginal(hunks, originalLines)

\* the lines the hunks before index h add, less the lines they remove
RECURSIVE DeltaUpTo(_, _)
DeltaUpTo(hunks, h) ==
  IF h <= 1 THEN 0
  ELSE hunks[h - 1].NewLines - hunks[h - 1].OldLines + DeltaUpTo(hunks, h - 1)

\* every hunk with a Context line has its new start where its old start
\* comes to lie after the hunks before it
StartsFollow(hunks) ==
  \A i \in 1..Len(hunks) :
    TypeCount(hunks[i], {"Context"}) > 0 =>
      hunks[i].NewStart = hunks[i].OldStart + DeltaUpTo(hunks, i)

\* C29 as stated: for a patch whose hunks are sorted, non-overlapping,
\* consistent with their headers and matching the original, every old line L
\* with n = MapOldPositionToNew(patch, L) # -1 is line n of
\* GetModifiedContentFromDiffHunk(original, patch)
C29_MappedLineKeptEveryStart ==
  (/\ hpc = "modified" /\ hparsed.ok
   /\ FitsOriginal(hparsed.hunks, SplitLines(horig)))
    => /\ hmod.ok
       /\ LinesKept(hparsed, SplitLines(horig), SplitLines(hmod.content))

\* C29: the same for a patch in which, in addition, the new start of every
\* hunk with a Context line is its old start plus the lines added less the
\* lines removed by the hunks before it
C29_MappedLineKept ==
  (/\ hpc = "modified" /\ hparsed.ok
   /\ FitsOriginal(hparsed.hunks, SplitLines(horig))
   /\ StartsFollow(hparsed.hunks))
    => /\ hmod.ok
       /\ LinesKept(hparsed, SplitLines(horig), SplitLines(hmod.content))

\* two hunks on the numbered original, the first without old lines, the
\* second with a Context line that moved
C29_Witness ==
  /\ hpc = "modified" /\ hparsed.ok /\ horig = NumberedOriginal
  /\ Len(hparsed.hunks) = 2
  /\ FitsOriginal(hparsed.hunks, SplitLines(horig))
  /\ StartsFollow(hparsed.hunks)
  /\ hparsed.hunks[1].OldLines = 0
  /\ \E k \in 1..Len(hparsed.hunks[2].Lines) :
       /\ hparsed.hunks[2].Lines[k].Type = "Context"
       /\ hparsed.hunks[2].Lines[k].OldLineNumber # hparsed.hunks[2].Lines[k].NewLineNumber
  /\ LinesKept(hparsed, SplitLines(horig), SplitLines(hmod.content))

\* a hunk that only deletes, written with the line before as its new start
C29_WitnessNoNewLines ==
  /\ hpc = "modified" /\ hparsed.ok /\ horig = NumberedOriginal
  /\ Len(hparsed.hunks) = 1
  /\ FitsOriginal(hparsed.hunks, SplitLines(horig))
  /\ hparsed.hunks[1].NewLines = 0
  /\ hparsed.hunks[1].NewStart = hparsed.hunks[1].OldStart - 1
  /\ LinesKept(hparsed, SplitLines(horig), SplitLines(hmod.content))

(***************************************************************************)
(* Order kept by the position mapper.                                      *)
(***************************************************************************)
\* sorted, non-overlapping on both sides, header counts equal to the body's
InOrderAndCounted(hunks) ==
  /\ OldInOrder(hunks)
  /\ NewInOrder(hunks)
  /\ \A i \in 1..Len(hunks) : CountsAreBody(hunks[i])

\* the old line mapped, if not to -1, went below every later old line that
\* is not mapped to -1
OldOrderKept(p, line, n) ==
  n # -1 =>
    \A later \in (line + 1)..(MaxLine + 1) :
      MapOldParsed(p, later).val # -1 => n < MapOldParsed(p, later).val

NewOrderKept(p, line, n) ==
  n # -1 =>
    \A later \in (line + 1)..(MaxLine + 1) :
      MapNewParsed(p, later).val # -1 => n < MapNewParsed(p, later).val

\* C30 as stated: for a patch whose hunks are sorted, non-overlapping and
\* consistent with their headers, MapOldPositionToNew is strictly increasing
\* on the old lines it does not map to -1 and MapNewPositionToOld on the new
\* lines it does not map to -1
C30_StrictlyIncreasingEveryStart ==
  (mparsed.ok /\ InOrderAndCounted(mparsed.hunks)) =>
    /\ mpc = "old2new" => OldOrderKept(mparsed, marg, mres.val)
    /\ mpc = "new2old" => NewOrderKept(mparsed, marg, mres.val)

\* C30: the same for a patch in which, in addition, the new start of every
\* hunk with a Context line is its old start plus the lines added less the
\* lines removed by the hunks before it
C30_StrictlyIncreasing ==
  (mparsed.ok /\ InOrderAndCounted(mparsed.hunks) /\ StartsFollow(mparsed.hunks)) =>
    /\ mpc = "old2new" => OldOrderKept(mparsed, marg, mres.val)
    /\ mpc = "new2old" => NewOrderKept(mparsed, marg, mres.val)

\* a new line inside the first of two hunks went to an old line below the
\* one a new line of the second hunk goes to, with a removed line between
C30_Witness ==
  /\ mpc = "new2old" /\ mparsed.ok
  /\ Len(mparsed.hunks) = 2
  /\ InOrderAndCounted(mparsed.hunks) /\ StartsFollow(mparsed.hunks)
  /\ mparsed.hunks[2].NewStart # mparsed.hunks[2].OldStart
  /\ marg \in NewNumbers(<<mparsed.hunks[1]>>, {"Context"})
  /\ mres.val # -1
  /\ \E later \in NewNumbers(<<mparsed.hunks[2]>>, {"Context"}) :
       /\ MapNewParsed(mparsed, later).val # -1
       /\ MapNewParsed(mparsed, later).val - mres.val # later - marg
  /\ NewOrderKept(mparsed, marg, mres.val)

\* the same for an old line, across the boundary of two hunks
C30_WitnessOld ==
  /\ mpc = "old2new" /\ mparsed.ok
  /\ Len(mparsed.hunks) = 2
  /\ InOrderAndCounted(mparsed.hunks) /\ StartsFollow(mparsed.hunks)
  /\ mparsed.hunks[2].NewStart # mparsed.hunks[2].OldStart
  /\ marg \in OldNumbers(<<mparsed.hunks[1]>>, {"Context"})
  /\ mres.val # -1
  /\ \E later \in OldNumbers(<<mparsed.hunks[2]>>, {"Context"}) :
       MapOldParsed(mparsed, later).val # -1
  /\ OldOrderKept(mparsed, marg, mres.val)

(***************************************************************************)
(* Properties of a session.                                                *)
(***************************************************************************)
\* the attempts of ApplyAll that returned an error
Failed == {k \in 1..Len(slog) : slog[k].result = "error"}

\* a failed attempt leaves the file as it found it
FailedLeftFile == \A k \in Failed : slog[k].after = slog[k].before

\* every attempt read the file as the attempt before it left it
ReadAsLeft ==
  /\ Len(slog) > 0 => slog[1].before \in SessionContents
  /\ \A k \in 1..(Len(slog) - 1) : slog[k + 1].before = slog[k].after

\* C27: in ApplyAll every suggestion whose applySuggestion returned an error
\* left the file as it was, and once ApplyAll is over every suggestion after
\* it was attempted, each on the file as the attempts before it left it
C27_FailureLeavesFileAndContinues ==
  smode = "all" =>
    /\ FailedLeftFile
    /\ ReadAsLeft
    /\ (spc \in {"end", "crashed"} /\ Failed # {}) => Len(slog) = Len(squeue)

\* ApplyAll ended in a panic of createPatch after a suggestion that returned
\* an error and before the last suggestion
C27_PanicEndsApplyAll ==
  /\ smode = "all"
  /\ spc = "crashed"
  /\ Failed # {}
  /\ Len(slog) < Len(squeue)

\* applyPatchAndEditFile returned after the patch went in without keeping
\* the changes
NotKept ==
  /\ spc = "returned"
  /\ sret \in {"editor failed", "failed to read input",
               "changes discarded by user", "failed to revert changes"}

\* C28: when applyPatchAndEditFile ends with the changes not kept, the file
\* is as it was immediately before the patch was applied
C28_NotKeptRestoresFile ==
  NotKept => swork = sbefore

\* the user discarded the changes and the file came back without a suggestion
\* applied to it earlier in the session
C28_EarlierSuggestionLost ==
  /\ NotKept
  /\ sret = "changes discarded by user"
  /\ Len(slog) > 0
  /\ slog[1].result = "applied"
  /\ sbefore = slog[Len(slog)].after
  /\ sbefore # sindex
  /\ swork = sindex

====
